---- MODULE Spec2Model ----
(***************************************************************************)
(* Synthesis session of the Baratinoo output module                        *)
(* (src/src/modules/baratinoo.c): the request functions module_speak,      *)
(* module_stop, module_pause and module_close, called by request threads,  *)
(* and the synthesis thread _baratinoo_speak with the engine output        *)
(* callback baratinoo_output_signal_cb.  The request functions are not     *)
(* atomic with respect to the synthesis thread (no lock is taken anywhere),*)
(* so each one is split at every access to a shared variable.              *)
(***************************************************************************)
EXTENDS Integers, Sequences, FiniteSets, TLC

\* ---------------------------------------------------------------- bounds
\* Total number of request calls (speak/stop/pause/close) in one run.
MaxCalls == 3
\* Largest number of audio chunks the engine produces for one text.
MaxChunks == 2

\* ------------------------------------------------------------- constants
NULL == 0
\* return value of module_pause when it had to stop: (size_t) -1
PauseFailed == -1

Callers == {1, 2}
BufIds == 1..MaxCalls
Texts == 1..MaxChunks
\* indices of the voices the engine enumerates
Voices == {0, 1}

VARIABLES
  stop_requested,   \* baratinoo_stop_requested
  close_requested,  \* baratinoo_close_requested
  text_buffer,      \* baratinoo_text_buffer: NULL or the id of a buffer
  sem,              \* count of baratinoo_semaphore
  voice,            \* baratinoo_voice
  released,         \* what module_close has released (engine, voices, sem)
  bufs,             \* heap of input text buffers: id -> [st, text]
  nalloc,           \* number of buffers allocated so far
  eng_buf,          \* buffer currently set in the engine (NULL if none)
  eng_left,         \* chunks the engine still has to produce
  tpc,              \* position of the synthesis thread
  tstate,           \* its local variable `state'
  cancel_sent,      \* pthread_cancel has been called on the thread
  cpc,              \* position of each request thread
  cop,              \* request function each request thread is inside
  carg,             \* arguments of the current module_speak call
  cret,             \* value returned by the last finished call
  clast,            \* name of the last finished call
  cbuf,             \* buffer allocated by the current module_speak call
  ncalls,           \* number of request calls started
  events,           \* lifecycle events reported, in order
  played,           \* chunks handed to module_tts_output, in order
  accepted,         \* buffers whose module_speak returned `bytes'
  stopmark,         \* per buffer: chunks allowed once a stop has returned
  hazards,          \* undefined behaviour that has happened
  \* ---- audio server (the playback thread _speechd_play)
  audio_id,         \* the open device (AudioID), NULL if none
  audio_close_requested,
  module_data_list, \* queue of the connection records, in order
  fd_sets,          \* heap of TAudioFDSetElement: id -> [st, fd]
  fdtab,            \* descriptor table: descriptor -> connection, 0 if closed
  sock,             \* connections: id -> [st, data, rest, eof]
  spc,              \* position of the playback thread
  cur,              \* record the running audio_process_incoming serves
  buf,              \* play_audio: the header bytes read so far
  track,            \* play_audio: the decoded AudioTrack
  format,           \* play_audio: the decoded AudioFormat
  consumed,         \* bytes the running play_audio call has read
  hres,             \* what the play_audio call that just returned did
  device_busy,      \* records whose chunk the plugin is playing
  closes,           \* per record: number of close() calls on its descriptor
  nframes,          \* number of messages the producers have started
  srv_hazards,      \* undefined behaviour in the playback thread
  outputs,          \* the output methods of the configuration, in order
  tried,            \* the spd_audio_open calls made: [name, ok], in order
  listening,        \* audio_server_socket is open
  \* ---- module_init and what the engine is told
  ipc,              \* module_init: "before" the call, or "done"
  init_ret,         \* value module_init returned
  status_info,      \* *status_info
  lib,              \* the Baratinoo library: none, up, terminated
  engine,           \* baratinoo_engine: none, alive, deleted
  tries,            \* number of calls of each setup function
  cb_ret            \* value the output callback returned last

sessionVars == <<stop_requested, close_requested, text_buffer, sem, voice>>
heapVars == <<bufs, nalloc>>
engineVars == <<eng_buf, eng_left>>
threadVars == <<tpc, tstate>>
callerVars == <<cpc, cop, carg, cret, clast, cbuf, ncalls>>
ghostVars == <<events, played, accepted, stopmark>>

\* the variables of the output module
moduleVars == <<stop_requested, close_requested, text_buffer, sem, voice,
                released, bufs, nalloc, eng_buf, eng_left, tpc, tstate,
                cancel_sent, cpc, cop, carg, cret, clast, cbuf, ncalls,
                events, played, accepted, stopmark, hazards>>

\* the variables of the audio server
serverVars == <<audio_id, audio_close_requested, module_data_list, fd_sets,
                fdtab, sock, spc, cur, buf, track, format, consumed, hres,
                device_busy, closes, nframes, srv_hazards, outputs, tried,
                listening>>

\* what the start and the end of the playback thread alone change
bootVars == <<outputs, tried, listening>>

\* what module_init alone changes
initVars == <<ipc, init_ret, status_info, lib, engine, tries>>

vars == <<moduleVars, serverVars, initVars, cb_ret>>

\* ------------------------------------------------ audio server: bounds
\* Output methods a configuration lists.
MaxOutputs == 2
\* Descriptors the playback thread can hold open for producer connections.
MaxConns == 2
\* Messages (frames, keep-alives, malformed headers) producers start to send.
MaxFrames == 2
\* Largest sample count of a chunk a producer sends.
MaxSamples == 2

\* --------------------------------------------- audio server: constants
\* values of AudioFormat
SPD_AUDIO_LE == 0
SPD_AUDIO_BE == 1
\* the volume _speechd_play sets on the device it opened
OperatingVolume == 85
\* names of output methods (plugins) a configuration may list
Backends == {"pulse", "alsa"}
\* the configurations: lists of at most MaxOutputs output methods
Configs == UNION {[1..n -> Backends] : n \in 0..MaxOutputs}
\* the configuration the server runs with when its start is not the subject
DefaultOutputs == <<"pulse">>
\* volumes asked of spd_audio_set_volume: the limits, their neighbours, 0
Volumes == {-101, -100, 0, 100, 101}
\* bytes of the protocol, as character codes
NEWLINE == <<13, 10>>
AckLine == <<65, 67, 75>> \o NEWLINE
Colon == 58
DigitZero == 48
QuestionMark == 63
Minus == 45
Plus == 43
Digits == DigitZero..(DigitZero + 9)
WhiteSpace == (9..13) \cup {32}

\* descriptors accept() can return, and the connections producers make
Fds == 1..MaxConns
ConnIds == 1..MaxConns

\* ------------------------------------------ transport protocol: encoder
\* decimal digits of a natural number
RECURSIVE ToDigits(_)
ToDigits(n) ==
  IF n < 10 THEN <<DigitZero + n>>
  ELSE ToDigits(n \div 10) \o <<DigitZero + (n % 10)>>

\* the sample bytes of an n-sample chunk: 2n bytes, all different
Payload(n) == [i \in 1..(2 * n) |-> i]

\* chunks with up to MaxSamples samples that a producer may send
Chunks(lo) ==
  [format : {SPD_AUDIO_LE, SPD_AUDIO_BE}, bits : {16}, num_channels : {1, 2},
   sample_rate : {16000}, num_samples : lo..MaxSamples]

\* <format>:<bits>:<channels>:<rate>:<num_samples>\r\n
Header(ch) ==
  ToDigits(ch.format) \o <<Colon>> \o ToDigits(ch.bits) \o <<Colon>>
  \o ToDigits(ch.num_channels) \o <<Colon>> \o ToDigits(ch.sample_rate)
  \o <<Colon>> \o ToDigits(ch.num_samples) \o NEWLINE

\* header line, then num_samples * 2 bytes of samples
Encode(ch) == Header(ch) \o Payload(ch.num_samples)

\* a header line with four fields only
ShortHeader == ToDigits(SPD_AUDIO_LE) \o <<Colon>> \o ToDigits(16)
               \o <<Colon>> \o ToDigits(1) \o <<Colon>> \o ToDigits(16000)
               \o NEWLINE

\* ------------------------------------------ transport protocol: decoder
\* play_audio, the loop that reads one line a byte at a time: b is the
\* line read so far, d the bytes that can be read without blocking
RECURSIVE TakeLine(_, _)
TakeLine(b, d) ==
  IF d = <<>> THEN [buf |-> b, rest |-> d, done |-> FALSE]
  ELSE LET c == Head(d)
       IN IF c = NEWLINE[2] /\ Len(b) >= 1 /\ b[Len(b)] = NEWLINE[1]
          THEN [buf |-> Append(b, c), rest |-> Tail(d), done |-> TRUE]
          ELSE TakeLine(Append(b, IF c = 0 THEN QuestionMark ELSE c), Tail(d))

\* position of the first delimiter in s, 0 if there is none (strstr)
RECURSIVE FindColon(_, _)
FindColon(s, i) ==
  IF i > Len(s) THEN 0
  ELSE IF s[i] = Colon THEN i
  ELSE FindColon(s, i + 1)

\* g_strsplit(s, ":", max): at most max pieces, the last one is the rest
RECURSIVE SplitRest(_, _)
SplitRest(s, max) ==
  LET i == FindColon(s, 1)
  IN IF max <= 1 \/ i = 0 THEN <<s>>
     ELSE <<SubSeq(s, 1, i - 1)>> \o SplitRest(SubSeq(s, i + 1, Len(s)), max - 1)

g_strsplit(s, max) == IF s = <<>> THEN <<>> ELSE SplitRest(s, max)

RECURSIVE SkipSpace(_)
SkipSpace(s) ==
  IF s # <<>> /\ Head(s) \in WhiteSpace THEN SkipSpace(Tail(s)) ELSE s

RECURSIVE DigitsValue(_, _)
DigitsValue(s, acc) ==
  IF s = <<>> \/ Head(s) \notin Digits THEN acc
  ELSE DigitsValue(Tail(s), acc * 10 + (Head(s) - DigitZero))

\* strtol(s, NULL, 10): white space, an optional sign, then the digits up to
\* the first other character; 0 if there is no digit.  (The headers sent
\* here stay far below LONG_MAX.)
strtol(s) ==
  LET t == SkipSpace(s)
  IN IF t # <<>> /\ Head(t) = Minus THEN 0 - DigitsValue(Tail(t), 0)
     ELSE IF t # <<>> /\ Head(t) = Plus THEN DigitsValue(Tail(t), 0)
     ELSE DigitsValue(t, 0)

\* the value of `track' before play_audio has filled it
NoTrack == [bits |-> 0, num_channels |-> 0, sample_rate |-> 0,
            num_samples |-> 0, samples |-> <<>>]

\* variant: the channel count and the sample rate are taken from each
\* other's piece
TrackOfMixed(md) ==
  [bits |-> strtol(md[2]), num_channels |-> strtol(md[4]),
   sample_rate |-> strtol(md[3]), num_samples |-> strtol(md[5]),
   samples |-> <<>>]

\* the AudioTrack play_audio builds from the five pieces of the header
TrackOf(md) ==
  [bits |-> strtol(md[2]), num_channels |-> strtol(md[3]),
   sample_rate |-> strtol(md[4]), num_samples |-> strtol(md[5]),
   samples |-> <<>>]

\* ------------------------------------------------------ spd_audio_play
\* variant: out_ptr advances by one byte, not by one sample
RECURSIVE SwapLoopByOne(_, _, _)
SwapLoopByOne(s, p, end) ==
  IF p >= end THEN s
  ELSE IF p + 2 <= Len(s)
       THEN SwapLoopByOne([s EXCEPT ![p + 1] = s[p + 2], ![p + 2] = s[p + 1]],
                          p + 1, end)
       ELSE SwapLoopByOne(s, p + 1, end)

\* the swap loop: out_ptr runs from byte p to byte end in steps of two and
\* exchanges the two bytes it points at; past the end of the buffer s it
\* touches memory that is not the track's
RECURSIVE SwapLoop(_, _, _)
SwapLoop(s, p, end) ==
  IF p >= end THEN s
  ELSE IF p + 2 <= Len(s)
       THEN SwapLoop([s EXCEPT ![p + 1] = s[p + 2], ![p + 2] = s[p + 1]],
                     p + 2, end)
       ELSE SwapLoop(s, p + 2, end)

\* out_end = out_ptr + track.num_samples * 2 * track.num_channels
SwapEnd(t) == t.num_samples * 2 * t.num_channels

\* ------------------------------------------------------------- helpers
NoBuf == [st |-> "none", text |-> 0]

\* number of chunks of buffer b handed to the output path so far
RECURSIVE CountPlayed(_, _)
CountPlayed(s, b) ==
  IF s = <<>> THEN 0
  ELSE (IF Head(s)[1] = b THEN 1 ELSE 0) + CountPlayed(Tail(s), b)

\* audio_id when no device is open (the NULL pointer)
NoAudioID == [open |-> FALSE, name |-> "", format |-> 0, volume |-> 0]

\* a connection no producer has made yet
NoSock == [st |-> "none", data |-> <<>>, rest |-> <<>>, eof |-> FALSE]

\* no TAudioFDSetElement allocated
NoFdSet == [st |-> "none", fd |-> 0]

\* the audio server before the playback thread runs: the listening socket
\* exists (speechd_audio_socket_init), nothing else does
ServerInit ==
  /\ audio_id = NoAudioID
  /\ audio_close_requested = FALSE
  /\ module_data_list = <<>>
  /\ fd_sets = [r \in ConnIds |-> NoFdSet]
  /\ fdtab = [d \in Fds |-> 0]
  /\ sock = [c \in ConnIds |-> NoSock]
  /\ spc = "start"
  /\ cur = 0
  /\ buf = <<>>
  /\ track = NoTrack
  /\ format = 0
  /\ consumed = <<>>
  /\ hres = "none"
  /\ device_busy = {}
  /\ closes = [r \in ConnIds |-> 0]
  /\ nframes = 0
  /\ srv_hazards = {}
  /\ outputs = <<>>
  /\ tried = <<>>
  /\ listening = TRUE

\* *status_info = NULL
NoStatus == ""

\* where module_init can fail
FailurePoints == {"initlib", "new", "init", "voices", "thread"}

\* variant: a failed pthread_create leaves the engine it was made for
InitOutcomeKeepsEngine(fail) ==
  IF fail = "initlib"
  THEN [ret |-> -1, status |-> "Failed to initialize Baratinoo.",
        lib |-> "none", engine |-> "none", thread |-> FALSE,
        tries |-> [initlib |-> 1, new |-> 0, init |-> 0, thread |-> 0]]
  ELSE IF fail = "new"
  THEN [ret |-> -1, status |-> "Failed to create Baratinoo engine.",
        lib |-> "terminated", engine |-> "none", thread |-> FALSE,
        tries |-> [initlib |-> 1, new |-> 1, init |-> 0, thread |-> 0]]
  ELSE IF fail = "init"
  THEN [ret |-> -1, status |-> "Failed to initialize Baratinoo engine.",
        lib |-> "terminated", engine |-> "deleted", thread |-> FALSE,
        tries |-> [initlib |-> 1, new |-> 1, init |-> 1, thread |-> 0]]
  ELSE IF fail = "voices"
  THEN [ret |-> -1, status |-> "No Baratinoo voices found.",
        lib |-> "terminated", engine |-> "deleted", thread |-> FALSE,
        tries |-> [initlib |-> 1, new |-> 1, init |-> 1, thread |-> 0]]
  ELSE IF fail = "thread"
  THEN [ret |-> -1, status |-> "The module couldn't initialize threads",
        lib |-> "up", engine |-> "alive", thread |-> FALSE,
        tries |-> [initlib |-> 1, new |-> 1, init |-> 1, thread |-> 1]]
  ELSE [ret |-> 0, status |-> "Baratinoo initialized successfully.",
        lib |-> "up", engine |-> "alive", thread |-> TRUE,
        tries |-> [initlib |-> 1, new |-> 1, init |-> 1, thread |-> 1]]

\* module_init when its first failure is at `fail' ("none": no failure):
\* the value returned, *status_info, what is left of the library and of the
\* engine, whether the thread was created, and the setup calls made
InitOutcome(fail) ==
  IF fail = "initlib"
  THEN [ret |-> -1, status |-> "Failed to initialize Baratinoo.",
        lib |-> "none", engine |-> "none", thread |-> FALSE,
        tries |-> [initlib |-> 1, new |-> 0, init |-> 0, thread |-> 0]]
  ELSE IF fail = "new"
  THEN [ret |-> -1, status |-> "Failed to create Baratinoo engine.",
        lib |-> "terminated", engine |-> "none", thread |-> FALSE,
        tries |-> [initlib |-> 1, new |-> 1, init |-> 0, thread |-> 0]]
  ELSE IF fail = "init"
  THEN [ret |-> -1, status |-> "Failed to initialize Baratinoo engine.",
        lib |-> "terminated", engine |-> "deleted", thread |-> FALSE,
        tries |-> [initlib |-> 1, new |-> 1, init |-> 1, thread |-> 0]]
  ELSE IF fail = "voices"
  THEN [ret |-> -1, status |-> "No Baratinoo voices found.",
        lib |-> "terminated", engine |-> "deleted", thread |-> FALSE,
        tries |-> [initlib |-> 1, new |-> 1, init |-> 1, thread |-> 0]]
  ELSE IF fail = "thread"
  THEN [ret |-> -1, status |-> "The module couldn't initialize threads",
        lib |-> "terminated", engine |-> "deleted", thread |-> FALSE,
        tries |-> [initlib |-> 1, new |-> 1, init |-> 1, thread |-> 1]]
  ELSE [ret |-> 0, status |-> "Baratinoo initialized successfully.",
        lib |-> "up", engine |-> "alive", thread |-> TRUE,
        tries |-> [initlib |-> 1, new |-> 1, init |-> 1, thread |-> 1]]

\* the session's variables when module_init has not failed, with the
\* synthesis thread at position t
SessionInit(t) ==
  /\ stop_requested = FALSE
  /\ close_requested = FALSE
  /\ text_buffer = NULL
  /\ sem = 0
  /\ voice = 0
  /\ released = FALSE
  /\ bufs = [b \in BufIds |-> NoBuf]
  /\ nalloc = 0
  /\ eng_buf = NULL
  /\ eng_left = 0
  /\ tpc = t
  /\ tstate = "NONE"
  /\ cancel_sent = FALSE
  /\ cpc = [c \in Callers |-> "idle"]
  /\ cop = [c \in Callers |-> "none"]
  /\ carg = [c \in Callers |-> [text |-> 0, voice |-> 0]]
  /\ cret = [c \in Callers |-> 0]
  /\ clast = [c \in Callers |-> "none"]
  /\ cbuf = [c \in Callers |-> NULL]
  /\ ncalls = 0
  /\ events = <<>>
  /\ played = <<>>
  /\ accepted = {}
  /\ stopmark = [b \in BufIds |-> -1]
  /\ hazards = {}
  /\ cb_ret = 0
  /\ ServerInit

\* state before module_init() is called: no library, no engine, no thread
PreInit ==
  /\ SessionInit("none")
  /\ ipc = "before"
  /\ init_ret = 0
  /\ status_info = NoStatus
  /\ lib = "none"
  /\ engine = "none"
  /\ tries = [initlib |-> 0, new |-> 0, init |-> 0, thread |-> 0]

\* state after module_init() succeeded
Init ==
  /\ SessionInit("while")
  /\ ipc = "done"
  /\ init_ret = InitOutcome("none").ret
  /\ status_info = InitOutcome("none").status
  /\ lib = InitOutcome("none").lib
  /\ engine = InitOutcome("none").engine
  /\ tries = InitOutcome("none").tries

\* module_init(status_info), from its call to its return: every setup step
\* is made once, in order, up to the first that fails; pthread_create starts
\* the synthesis thread
module_init ==
  /\ ipc = "before"
  /\ \E fail \in FailurePoints \cup {"none"} :
       LET o == InitOutcome(fail)
       IN /\ init_ret' = o.ret
          /\ status_info' = o.status
          /\ lib' = o.lib
          /\ engine' = o.engine
          /\ tries' = o.tries
          /\ tpc' = IF o.thread THEN "while" ELSE tpc
          /\ sem' = IF o.tries.thread > 0 THEN 0 ELSE sem
  /\ ipc' = "done"
  /\ stop_requested' = FALSE
  /\ close_requested' = FALSE
  /\ UNCHANGED <<text_buffer, voice, released, heapVars, engineVars, tstate,
                 cancel_sent, callerVars, ghostVars, hazards, serverVars,
                 cb_ret>>

\* variant: a pending stop also counts as speaking
SpeakingOrStopping == text_buffer # NULL \/ stop_requested

\* static gboolean baratinoo_speaking(void)
baratinoo_speaking == text_buffer # NULL

\* sem_post(&baratinoo_semaphore); undefined once the semaphore is destroyed
SemPost ==
  /\ sem' = sem + 1
  /\ hazards' = IF released THEN hazards \cup {"sem_post_after_destroy"}
                ELSE hazards

\* a request function returns r to its caller
Return(c, r) ==
  /\ cpc' = [cpc EXCEPT ![c] = "idle"]
  /\ cret' = [cret EXCEPT ![c] = r]
  /\ clast' = [clast EXCEPT ![c] = cop[c]]
  /\ cop' = [cop EXCEPT ![c] = "none"]

Goto(c, l) ==
  /\ cpc' = [cpc EXCEPT ![c] = l]
  /\ UNCHANGED <<cop, cret, clast>>

\* the chunks a stop that returns now still allows for buffer b: the ones
\* already handed over, plus the one whose hand-over is in progress
AllowedNow(b) ==
  CountPlayed(played, b) + (IF tpc = "cb_out" /\ eng_buf = b THEN 1 ELSE 0)

MarkStop ==
  stopmark' = IF text_buffer \in BufIds /\ stopmark[text_buffer] < 0
              THEN [stopmark EXCEPT ![text_buffer] = AllowedNow(text_buffer)]
              ELSE stopmark

\* ------------------------------------------------------- module_speak
\* a request thread enters module_speak(data, bytes, msgtype)
CallSpeak(c) ==
  /\ cpc[c] = "idle"
  /\ ncalls < MaxCalls
  /\ \E t \in Texts, v \in Voices :
       carg' = [carg EXCEPT ![c] = [text |-> t, voice |-> v]]
  /\ cpc' = [cpc EXCEPT ![c] = "speak_check"]
  /\ cop' = [cop EXCEPT ![c] = "speak"]
  /\ cbuf' = [cbuf EXCEPT ![c] = NULL]
  /\ ncalls' = ncalls + 1
  /\ UNCHANGED <<sessionVars, released, heapVars, engineVars, threadVars,
                 cancel_sent, cret, clast, ghostVars, hazards>>
  /\ UNCHANGED <<serverVars, initVars, cb_ret>>

\* variant: the stop flag is cleared before the busy test
SpeakCheckClearsFirst(c) ==
  /\ cpc[c] = "speak_check"
  /\ stop_requested' = FALSE
  /\ IF text_buffer # NULL
     THEN Return(c, 0)
     ELSE Goto(c, "speak_clear")
  /\ UNCHANGED <<close_requested, text_buffer, sem, voice, released,
                 heapVars, engineVars, threadVars, cancel_sent, carg, cbuf,
                 ncalls, ghostVars, hazards>>
  /\ UNCHANGED <<serverVars, initVars, cb_ret>>

\* if (baratinoo_speaking()) return 0;
SpeakCheck(c) ==
  /\ cpc[c] = "speak_check"
  /\ IF baratinoo_speaking
     THEN Return(c, 0)
     ELSE Goto(c, "speak_clear")
  /\ UNCHANGED <<sessionVars, released, heapVars, engineVars, threadVars,
                 cancel_sent, carg, cbuf, ncalls, ghostVars, hazards>>
  /\ UNCHANGED <<serverVars, initVars, cb_ret>>

\* variant: module_speak leaves the stop flag as it finds it
SpeakClearKeepsStop(c) ==
  /\ cpc[c] = "speak_clear"
  /\ stop_requested' = stop_requested
  /\ voice' = carg[c].voice
  /\ Goto(c, "speak_new")
  /\ UNCHANGED <<close_requested, text_buffer, sem, released, heapVars,
                 engineVars, threadVars, cancel_sent, carg, cbuf, ncalls,
                 ghostVars, hazards>>
  /\ UNCHANGED <<serverVars, initVars, cb_ret>>

\* baratinoo_stop_requested = FALSE; then the UPDATE_*PARAMETER macros,
\* which end in baratinoo_voice = <index of the requested voice>
SpeakClear(c) ==
  /\ cpc[c] = "speak_clear"
  /\ stop_requested' = FALSE
  /\ voice' = carg[c].voice
  /\ Goto(c, "speak_new")
  /\ UNCHANGED <<close_requested, text_buffer, sem, released, heapVars,
                 engineVars, threadVars, cancel_sent, carg, cbuf, ncalls,
                 ghostVars, hazards>>
  /\ UNCHANGED <<serverVars, initVars, cb_ret>>

\* baratinoo_text_buffer = BCinputTextBufferNew(...); on NULL goto err,
\* where nothing is left to release and 0 is returned
SpeakNew(c) ==
  /\ cpc[c] = "speak_new"
  /\ \/ /\ text_buffer' = nalloc + 1
        /\ nalloc' = nalloc + 1
        /\ bufs' = [bufs EXCEPT ![nalloc + 1] = [st |-> "new", text |-> 0]]
        /\ cbuf' = [cbuf EXCEPT ![c] = nalloc + 1]
        /\ Goto(c, "speak_init")
     \/ /\ text_buffer' = NULL
        /\ UNCHANGED <<nalloc, bufs, cbuf>>
        /\ Return(c, 0)
  /\ UNCHANGED <<stop_requested, close_requested, sem, voice, released,
                 engineVars, threadVars, cancel_sent, carg, ncalls,
                 ghostVars, hazards>>
  /\ UNCHANGED <<serverVars, initVars, cb_ret>>

\* BCinputTextBufferInit(baratinoo_text_buffer, stripped) acts on whatever
\* the global pointer designates now; on failure the err label deletes that
\* buffer, leaves the pointer as it is and returns 0
SpeakInit(c) ==
  /\ cpc[c] = "speak_init"
  /\ LET b == text_buffer
         fresh == b \in BufIds /\ bufs[b].st = "new"
     IN \/ /\ bufs' = IF fresh
                      THEN [bufs EXCEPT ![b] = [st |-> "init",
                                                text |-> carg[c].text]]
                      ELSE bufs
           /\ hazards' = IF fresh THEN hazards
                         ELSE hazards \cup {"init_of_foreign_buffer"}
           /\ Goto(c, "speak_post")
        \/ /\ bufs' = IF b \in BufIds
                      THEN [bufs EXCEPT ![b].st = "deleted"]
                      ELSE bufs
           /\ hazards' = IF b \in BufIds /\ bufs[b].st = "deleted"
                         THEN hazards \cup {"double_delete"}
                         ELSE hazards
           /\ Return(c, 0)
  /\ UNCHANGED <<sessionVars, released, nalloc, engineVars, threadVars,
                 cancel_sent, carg, cbuf, ncalls, ghostVars>>
  /\ UNCHANGED <<serverVars, initVars, cb_ret>>

\* sem_post(&baratinoo_semaphore); return bytes;
SpeakPost(c) ==
  /\ cpc[c] = "speak_post"
  /\ SemPost
  /\ accepted' = accepted \cup {cbuf[c]}
  /\ Return(c, carg[c].text)
  /\ UNCHANGED <<stop_requested, close_requested, text_buffer, voice,
                 released, heapVars, engineVars, threadVars, cancel_sent,
                 carg, cbuf, ncalls, events, played, stopmark>>
  /\ UNCHANGED <<serverVars, initVars, cb_ret>>

\* -------------------------------------------------------- module_stop
CallStop(c) ==
  /\ cpc[c] = "idle"
  /\ ncalls < MaxCalls
  /\ cpc' = [cpc EXCEPT ![c] = "stop_check"]
  /\ cop' = [cop EXCEPT ![c] = "stop"]
  /\ ncalls' = ncalls + 1
  /\ UNCHANGED <<sessionVars, released, heapVars, engineVars, threadVars,
                 cancel_sent, carg, cret, clast, cbuf, ghostVars, hazards>>
  /\ UNCHANGED <<serverVars, initVars, cb_ret>>

\* module_stop returns 0; module_pause, which calls it, then returns -1
StopResult(c) == IF cop[c] = "pause" THEN PauseFailed ELSE 0

\* variant: the flag is not tested, every stop sets it and posts
StopCheckAlwaysSets(c) ==
  /\ cpc[c] = "stop_check"
  /\ Goto(c, "stop_set")
  /\ UNCHANGED <<sessionVars, released, heapVars, engineVars, threadVars,
                 cancel_sent, carg, cbuf, ncalls, ghostVars, hazards>>
  /\ UNCHANGED <<serverVars, initVars, cb_ret>>

\* if (!baratinoo_stop_requested) { ... } return 0;
StopCheck(c) ==
  /\ cpc[c] = "stop_check"
  /\ IF stop_requested
     THEN Return(c, StopResult(c)) /\ MarkStop
     ELSE Goto(c, "stop_set") /\ UNCHANGED stopmark
  /\ UNCHANGED <<sessionVars, released, heapVars, engineVars, threadVars,
                 cancel_sent, carg, cbuf, ncalls, events, played, accepted,
                 hazards>>
  /\ UNCHANGED <<serverVars, initVars, cb_ret>>

\* baratinoo_stop_requested = TRUE;
StopSet(c) ==
  /\ cpc[c] = "stop_set"
  /\ stop_requested' = TRUE
  /\ Goto(c, "stop_post")
  /\ UNCHANGED <<close_requested, text_buffer, sem, voice, released,
                 heapVars, engineVars, threadVars, cancel_sent, carg, cbuf,
                 ncalls, ghostVars, hazards>>
  /\ UNCHANGED <<serverVars, initVars, cb_ret>>

\* sem_post(&baratinoo_semaphore); return 0;
StopPost(c) ==
  /\ cpc[c] = "stop_post"
  /\ SemPost
  /\ MarkStop
  /\ Return(c, StopResult(c))
  /\ UNCHANGED <<stop_requested, close_requested, text_buffer, voice,
                 released, heapVars, engineVars, threadVars, cancel_sent,
                 carg, cbuf, ncalls, events, played, accepted>>
  /\ UNCHANGED <<serverVars, initVars, cb_ret>>

\* ------------------------------------------------------- module_pause
CallPause(c) ==
  /\ cpc[c] = "idle"
  /\ ncalls < MaxCalls
  /\ cpc' = [cpc EXCEPT ![c] = "pause_check"]
  /\ cop' = [cop EXCEPT ![c] = "pause"]
  /\ ncalls' = ncalls + 1
  /\ UNCHANGED <<sessionVars, released, heapVars, engineVars, threadVars,
                 cancel_sent, carg, cret, clast, cbuf, ghostVars, hazards>>
  /\ UNCHANGED <<serverVars, initVars, cb_ret>>

\* variant: reports success without stopping while an utterance is pending
PauseCheckSilent(c) ==
  /\ cpc[c] = "pause_check"
  /\ Return(c, 0)
  /\ UNCHANGED <<sessionVars, released, heapVars, engineVars, threadVars,
                 cancel_sent, carg, cbuf, ncalls, ghostVars, hazards>>
  /\ UNCHANGED <<serverVars, initVars, cb_ret>>

\* if (baratinoo_speaking()) { module_stop(); return -1; } else return 0;
PauseCheck(c) ==
  /\ cpc[c] = "pause_check"
  /\ IF baratinoo_speaking
     THEN Goto(c, "stop_check")
     ELSE Return(c, 0)
  /\ UNCHANGED <<sessionVars, released, heapVars, engineVars, threadVars,
                 cancel_sent, carg, cbuf, ncalls, ghostVars, hazards>>
  /\ UNCHANGED <<serverVars, initVars, cb_ret>>

\* ------------------------------------------------------- module_close
CallClose(c) ==
  /\ cpc[c] = "idle"
  /\ ncalls < MaxCalls
  /\ cpc' = [cpc EXCEPT ![c] = "close_stop"]
  /\ cop' = [cop EXCEPT ![c] = "close"]
  /\ ncalls' = ncalls + 1
  /\ UNCHANGED <<sessionVars, released, heapVars, engineVars, threadVars,
                 cancel_sent, carg, cret, clast, cbuf, ghostVars, hazards>>
  /\ UNCHANGED <<serverVars, initVars, cb_ret>>

\* baratinoo_stop_requested = TRUE;
CloseStop(c) ==
  /\ cpc[c] = "close_stop"
  /\ stop_requested' = TRUE
  /\ Goto(c, "close_close")
  /\ UNCHANGED <<close_requested, text_buffer, sem, voice, released,
                 heapVars, engineVars, threadVars, cancel_sent, carg, cbuf,
                 ncalls, ghostVars, hazards>>
  /\ UNCHANGED <<serverVars, initVars, cb_ret>>

\* baratinoo_close_requested = TRUE;
CloseClose(c) ==
  /\ cpc[c] = "close_close"
  /\ close_requested' = TRUE
  /\ Goto(c, "close_post")
  /\ UNCHANGED <<stop_requested, text_buffer, sem, voice, released,
                 heapVars, engineVars, threadVars, cancel_sent, carg, cbuf,
                 ncalls, ghostVars, hazards>>
  /\ UNCHANGED <<serverVars, initVars, cb_ret>>

\* sem_post(&baratinoo_semaphore); g_usleep(25000);
ClosePost(c) ==
  /\ cpc[c] = "close_post"
  /\ SemPost
  /\ Goto(c, "close_cancel")
  /\ UNCHANGED <<stop_requested, close_requested, text_buffer, voice,
                 released, heapVars, engineVars, threadVars, cancel_sent,
                 carg, cbuf, ncalls, ghostVars>>
  /\ UNCHANGED <<serverVars, initVars, cb_ret>>

\* pthread_cancel(baratinoo_speak_thread), once the grace period is over
CloseCancel(c) ==
  /\ cpc[c] = "close_cancel"
  /\ cancel_sent' = TRUE
  /\ Goto(c, "close_join")
  /\ UNCHANGED <<sessionVars, released, heapVars, engineVars, threadVars,
                 carg, cbuf, ncalls, ghostVars, hazards>>
  /\ UNCHANGED <<serverVars, initVars, cb_ret>>

\* the thread has returned or has been cancelled
ThreadGone == tpc \in {"exited", "cancelled"}

\* variant: the resources are released without waiting for the thread
CloseJoinNoWait(c) ==
  /\ cpc[c] = "close_join"
  /\ Goto(c, "close_free")
  /\ UNCHANGED <<sessionVars, released, heapVars, engineVars, threadVars,
                 cancel_sent, carg, cbuf, ncalls, ghostVars, hazards>>
  /\ UNCHANGED <<serverVars, initVars, cb_ret>>

\* pthread_join(baratinoo_speak_thread, NULL) blocks until the thread is gone
CloseJoin(c) ==
  /\ cpc[c] = "close_join"
  /\ ThreadGone
  /\ Goto(c, "close_free")
  /\ UNCHANGED <<sessionVars, released, heapVars, engineVars, threadVars,
                 cancel_sent, carg, cbuf, ncalls, ghostVars, hazards>>
  /\ UNCHANGED <<serverVars, initVars, cb_ret>>

\* voice list freed, BCdelete(baratinoo_engine), BCterminatelib(),
\* sem_destroy(&baratinoo_semaphore); return 0;
CloseFree(c) ==
  /\ cpc[c] = "close_free"
  /\ released' = TRUE
  /\ Return(c, 0)
  /\ UNCHANGED <<sessionVars, heapVars, engineVars, threadVars, cancel_sent,
                 carg, cbuf, ncalls, ghostVars, hazards>>
  /\ UNCHANGED <<serverVars, initVars, cb_ret>>

\* --------------------------------------------- synthesis thread
\* the thread touches the engine, a text buffer or the semaphore: undefined
\* once module_close has released them
ThreadUse(extra) ==
  hazards' = hazards \cup extra
             \cup (IF released THEN {"thread_use_after_release"} ELSE {})

\* variant: the outer loop does not test the close flag
T_WhileForever ==
  /\ tpc = "while"
  /\ tpc' = "wait"
  /\ UNCHANGED <<sessionVars, released, heapVars, engineVars, tstate,
                 cancel_sent, callerVars, ghostVars, hazards>>
  /\ UNCHANGED <<serverVars, initVars, cb_ret>>

\* while (!baratinoo_close_requested)
T_While ==
  /\ tpc = "while"
  /\ tpc' = IF close_requested THEN "exited" ELSE "wait"
  /\ UNCHANGED <<sessionVars, released, heapVars, engineVars, tstate,
                 cancel_sent, callerVars, ghostVars, hazards>>
  /\ UNCHANGED <<serverVars, initVars, cb_ret>>

\* sem_wait(&baratinoo_semaphore);
T_Wait ==
  /\ tpc = "wait"
  /\ sem > 0
  /\ sem' = sem - 1
  /\ tpc' = "check"
  /\ ThreadUse({})
  /\ UNCHANGED <<stop_requested, close_requested, text_buffer, voice,
                 released, heapVars, engineVars, tstate, cancel_sent,
                 callerVars, ghostVars>>
  /\ UNCHANGED <<serverVars, initVars, cb_ret>>

\* if (!baratinoo_text_buffer) continue;
T_Check ==
  /\ tpc = "check"
  /\ tpc' = IF text_buffer = NULL THEN "while" ELSE "setin"
  /\ UNCHANGED <<sessionVars, released, heapVars, engineVars, tstate,
                 cancel_sent, callerVars, ghostVars, hazards>>
  /\ UNCHANGED <<serverVars, initVars, cb_ret>>

\* what reading buffer b from the engine thread amounts to
BufferReadHazard(b) ==
  IF b \notin BufIds THEN {"null_buffer_read"}
  ELSE IF bufs[b].st = "new" THEN {"uninitialised_buffer_read"}
  ELSE IF bufs[b].st = "deleted" THEN {"deleted_buffer_read"}
  ELSE {}

\* state = BCinputTextBufferSetInEngine(baratinoo_text_buffer, engine);
\* if (state != BARATINOO_READY) continue;
\* The engine either takes the buffer (READY) or refuses it.
T_SetIn ==
  /\ tpc = "setin"
  /\ LET b == text_buffer
     IN /\ \/ /\ tstate' = "READY"
              /\ eng_buf' = b
              /\ eng_left' = IF b \in BufIds THEN bufs[b].text ELSE 0
              /\ tpc' = "begin"
           \/ /\ tstate' = "FAIL"
              /\ UNCHANGED engineVars
              /\ tpc' = "while"
        /\ ThreadUse(BufferReadHazard(b))
  /\ UNCHANGED <<sessionVars, released, heapVars, cancel_sent, callerVars,
                 ghostVars>>
  /\ UNCHANGED <<serverVars, initVars, cb_ret>>

\* module_report_event_begin();
T_Begin ==
  /\ tpc = "begin"
  /\ events' = Append(events, <<"begin", text_buffer>>)
  /\ tpc' = "looptop"
  /\ UNCHANGED <<sessionVars, released, heapVars, engineVars, tstate,
                 cancel_sent, callerVars, played, accepted, stopmark,
                 hazards>>
  /\ UNCHANGED <<serverVars, initVars, cb_ret>>

\* do { if (close_requested) break; else if (stop_requested) ...; else ...
T_LoopTop ==
  /\ tpc = "looptop"
  /\ tpc' = IF close_requested THEN "end"
            ELSE IF stop_requested THEN "purge"
            ELSE "process"
  /\ UNCHANGED <<sessionVars, released, heapVars, engineVars, tstate,
                 cancel_sent, callerVars, ghostVars, hazards>>
  /\ UNCHANGED <<serverVars, initVars, cb_ret>>

\* state = BCpurge(baratinoo_engine): the engine drops its pending input and
\* the audio it has not delivered yet
T_Purge ==
  /\ tpc = "purge"
  /\ eng_left' = 0
  /\ tstate' \in {"READY", "RUNNING"}
  /\ tpc' = "clearstop"
  /\ ThreadUse({})
  /\ UNCHANGED <<sessionVars, released, heapVars, eng_buf, cancel_sent,
                 callerVars, ghostVars>>
  /\ UNCHANGED <<serverVars, initVars, cb_ret>>

\* baratinoo_stop_requested = FALSE;
T_ClearStop ==
  /\ tpc = "clearstop"
  /\ stop_requested' = FALSE
  /\ tpc' = "loopcond"
  /\ UNCHANGED <<close_requested, text_buffer, sem, voice, released,
                 heapVars, engineVars, tstate, cancel_sent, callerVars,
                 ghostVars, hazards>>
  /\ UNCHANGED <<serverVars, initVars, cb_ret>>

\* value BCprocessLoop returns when its time slice ends
SliceResult == IF eng_left > 0 THEN {"RUNNING", "EVENT"} ELSE {"READY"}

\* state = BCprocessLoop(baratinoo_engine, 100): with nothing left the engine
\* reports the end of the input, otherwise it produces a chunk and calls
\* the output callback
T_Process ==
  /\ tpc = "process"
  /\ IF eng_left > 0
     THEN tpc' = "cb_check" /\ UNCHANGED tstate
     ELSE tpc' = "loopcond" /\ tstate' \in SliceResult
  /\ ThreadUse({})
  /\ UNCHANGED <<sessionVars, released, heapVars, engineVars, cancel_sent,
                 callerVars, ghostVars>>
  /\ UNCHANGED <<serverVars, initVars, cb_ret>>

\* variant: the callback forwards every chunk, stop pending or not
T_CbCheckIgnoresStop ==
  /\ tpc = "cb_check"
  /\ tpc' = "cb_out"
  /\ UNCHANGED <<sessionVars, released, heapVars, engineVars, tstate,
                 cancel_sent, callerVars, ghostVars, hazards>>
  /\ UNCHANGED <<serverVars, initVars, cb_ret>>

\* baratinoo_output_signal_cb: if (baratinoo_stop_requested) return 0;
T_CbCheck ==
  /\ tpc = "cb_check"
  /\ IF stop_requested
     THEN tpc' = "slice" /\ eng_left' = eng_left - 1 /\ cb_ret' = 0
     ELSE tpc' = "cb_out" /\ UNCHANGED <<eng_left, cb_ret>>
  /\ UNCHANGED <<sessionVars, released, heapVars, eng_buf, tstate,
                 cancel_sent, callerVars, ghostVars, hazards>>
  /\ UNCHANGED <<serverVars, initVars>>

\* variant: the callback hands the chunk over twice
T_CbOutTwice ==
  /\ tpc = "cb_out"
  /\ played' = played \o <<(<<eng_buf, eng_left>>), (<<eng_buf, eng_left>>)>>
  /\ eng_left' = eng_left - 1
  /\ tpc' = "slice"
  /\ UNCHANGED <<sessionVars, released, heapVars, eng_buf, tstate,
                 cancel_sent, callerVars, events, accepted, stopmark,
                 hazards>>
  /\ cb_ret' = 0
  /\ UNCHANGED <<serverVars, initVars>>

\* baratinoo_output_signal_cb: module_tts_output(track, SPD_AUDIO_LE);
\* return 0;
T_CbOut ==
  /\ tpc = "cb_out"
  /\ played' = Append(played, <<eng_buf, eng_left>>)
  /\ eng_left' = eng_left - 1
  /\ tpc' = "slice"
  /\ UNCHANGED <<sessionVars, released, heapVars, eng_buf, tstate,
                 cancel_sent, callerVars, events, accepted, stopmark,
                 hazards>>
  /\ cb_ret' = 0
  /\ UNCHANGED <<serverVars, initVars>>

\* rest of the time slice of BCprocessLoop: another chunk, or return
T_Slice ==
  /\ tpc = "slice"
  /\ \/ /\ eng_left > 0
        /\ tpc' = "cb_check"
        /\ UNCHANGED tstate
     \/ /\ tstate' \in SliceResult
        /\ tpc' = "loopcond"
  /\ ThreadUse({})
  /\ UNCHANGED <<sessionVars, released, heapVars, engineVars, cancel_sent,
                 callerVars, ghostVars>>
  /\ UNCHANGED <<serverVars, initVars, cb_ret>>

\* } while (state == BARATINOO_RUNNING || state == BARATINOO_EVENT);
T_LoopCond ==
  /\ tpc = "loopcond"
  /\ tpc' = IF tstate \in {"RUNNING", "EVENT"} THEN "looptop" ELSE "end"
  /\ UNCHANGED <<sessionVars, released, heapVars, engineVars, tstate,
                 cancel_sent, callerVars, ghostVars, hazards>>
  /\ UNCHANGED <<serverVars, initVars, cb_ret>>

\* module_report_event_end();
T_End ==
  /\ tpc = "end"
  /\ events' = Append(events, <<"end", text_buffer>>)
  /\ tpc' = "delete"
  /\ UNCHANGED <<sessionVars, released, heapVars, engineVars, tstate,
                 cancel_sent, callerVars, played, accepted, stopmark,
                 hazards>>
  /\ UNCHANGED <<serverVars, initVars, cb_ret>>

\* BCinputTextBufferDelete(baratinoo_text_buffer);
T_Delete ==
  /\ tpc = "delete"
  /\ LET b == text_buffer
     IN /\ bufs' = IF b \in BufIds THEN [bufs EXCEPT ![b].st = "deleted"]
                   ELSE bufs
        /\ ThreadUse(IF b \in BufIds /\ bufs[b].st = "deleted"
                     THEN {"double_delete"} ELSE {})
  /\ eng_buf' = NULL
  /\ eng_left' = 0
  /\ tpc' = "null"
  /\ UNCHANGED <<sessionVars, released, nalloc, tstate, cancel_sent,
                 callerVars, ghostVars>>
  /\ UNCHANGED <<serverVars, initVars, cb_ret>>

\* baratinoo_text_buffer = NULL;
T_Null ==
  /\ tpc = "null"
  /\ text_buffer' = NULL
  /\ tpc' = "while"
  /\ UNCHANGED <<stop_requested, close_requested, sem, voice, released,
                 heapVars, engineVars, tstate, cancel_sent, callerVars,
                 ghostVars, hazards>>
  /\ UNCHANGED <<serverVars, initVars, cb_ret>>

\* the cancellation requested by pthread_cancel takes effect
T_Cancelled ==
  /\ cancel_sent
  /\ ~ThreadGone
  /\ tpc' = "cancelled"
  /\ UNCHANGED <<sessionVars, released, heapVars, engineVars, tstate,
                 cancel_sent, callerVars, ghostVars, hazards>>
  /\ UNCHANGED <<serverVars, initVars, cb_ret>>

ThreadStep ==
  \/ T_While \/ T_Wait \/ T_Check \/ T_SetIn \/ T_Begin \/ T_LoopTop
  \/ T_Purge \/ T_ClearStop \/ T_Process \/ T_CbCheck \/ T_CbOut
  \/ T_Slice \/ T_LoopCond \/ T_End \/ T_Delete \/ T_Null

\* ------------------------------------------------------ specifications
SpeakStep(c) ==
  \/ CallSpeak(c) \/ SpeakCheck(c) \/ SpeakClear(c) \/ SpeakNew(c)
  \/ SpeakInit(c) \/ SpeakPost(c)

StopStep(c) == CallStop(c) \/ StopCheck(c) \/ StopSet(c) \/ StopPost(c)

PauseStep(c) == CallPause(c) \/ PauseCheck(c)

CloseStep(c) ==
  \/ CallClose(c) \/ CloseStop(c) \/ CloseClose(c) \/ ClosePost(c)
  \/ CloseCancel(c) \/ CloseJoin(c) \/ CloseFree(c)

CallerStep(c) == SpeakStep(c) \/ StopStep(c) \/ PauseStep(c) \/ CloseStep(c)

\* one request thread and the synthesis thread
Next == ThreadStep \/ T_Cancelled \/ CallerStep(1)

Spec == Init /\ [][Next]_vars

\* the session from before module_init: requests come once it has returned
\* success
InitNext == module_init \/ (ipc = "done" /\ init_ret = 0 /\ Next)

InitSpec == PreInit /\ [][InitNext]_vars

\* the synthesis thread is scheduled; the request thread may go quiet
FairSpec == Spec /\ WF_vars(ThreadStep) /\ WF_vars(T_Cancelled)

\* a second request thread that calls module_speak concurrently
NextConc == Next \/ SpeakStep(2)

SpecConc == Init /\ [][NextConc]_vars

\* =========================================================== audio server
connVars == <<module_data_list, fd_sets, fdtab, closes>>
decVars == <<buf, track, format, consumed, hres>>

\* variant: a volume out of range is clamped to the nearest limit
spd_audio_set_volumeClamps(id, volume) ==
  IF ~id.open THEN [ret |-> -1, id |-> id]
  ELSE [ret |-> 0,
        id |-> [id EXCEPT !.volume = IF volume > 100 THEN 100
                                     ELSE IF volume < -100 THEN -100
                                     ELSE volume]]

\* spd_audio_set_volume(id, volume): the value returned and the handle
\* after the call
spd_audio_set_volume(id, volume) ==
  IF volume > 100 \/ volume < -100 THEN [ret |-> -1, id |-> id]
  ELSE IF ~id.open THEN [ret |-> -1, id |-> id]
  ELSE [ret |-> 0, id |-> [id EXCEPT !.volume = volume]]

\* variant: the loop over the output methods has no break, every method
\* after the first that opens is opened as well
RECURSIVE OpenLoopNoBreak(_, _, _, _)
OpenLoopNoBreak(outs, oks, f, i) ==
  IF i > Len(outs) THEN [id |-> NoAudioID, tried |-> <<>>]
  ELSE LET r == OpenLoopNoBreak(outs, oks, f, i + 1)
           id == [open |-> TRUE, name |-> outs[i], format |-> f, volume |-> 0]
       IN [id |-> IF r.id.open THEN r.id
                  ELSE IF oks[i]
                       THEN spd_audio_set_volume(id, OperatingVolume).id
                       ELSE NoAudioID,
           tried |-> <<[name |-> outs[i], ok |-> oks[i]]>> \o r.tried]

\* _speechd_play, the loop over the output methods from outputs[i] on:
\* spd_audio_open(outputs[i]) succeeds (oks[i]) or not; the first handle
\* that opens gets the operating volume and ends the loop.  spd_audio_open
\* sets the byte order f of the build as the handle's format.
RECURSIVE OpenLoop(_, _, _, _)
OpenLoop(outs, oks, f, i) ==
  IF i > Len(outs) THEN [id |-> NoAudioID, tried |-> <<>>]
  ELSE IF oks[i]
       THEN LET id == [open |-> TRUE, name |-> outs[i], format |-> f,
                       volume |-> 0]
            IN [id |-> spd_audio_set_volume(id, OperatingVolume).id,
                tried |-> <<[name |-> outs[i], ok |-> TRUE]>>]
       ELSE LET r == OpenLoop(outs, oks, f, i + 1)
            IN [id |-> r.id,
                tried |-> <<[name |-> outs[i], ok |-> FALSE]>> \o r.tried]

\* variant: the thread gives up when no output method opens
S_StartFatal(Cfg) ==
  /\ spc = "start"
  /\ \E outs \in Cfg :
     \E oks \in [1..Len(outs) -> BOOLEAN] :
     \E f \in {SPD_AUDIO_LE, SPD_AUDIO_BE} :
       LET r == OpenLoop(outs, oks, f, 1)
       IN /\ outputs' = outs
          /\ tried' = r.tried
          /\ audio_id' = r.id
          /\ spc' = IF r.id.open THEN "loop" ELSE "returned"
  /\ UNCHANGED <<moduleVars, initVars, cb_ret, audio_close_requested, connVars, sock, cur,
                 decVars, device_busy, nframes, srv_hazards, listening>>

\* _speechd_play up to g_main_loop_run(), with one of the configurations
\* Cfg (lists of output methods): opens the first output method that
\* opens, sets its volume, attaches the sources
S_Start(Cfg) ==
  /\ spc = "start"
  /\ \E outs \in Cfg :
     \E oks \in [1..Len(outs) -> BOOLEAN] :
     \E f \in {SPD_AUDIO_LE, SPD_AUDIO_BE} :
       LET r == OpenLoop(outs, oks, f, 1)
       IN /\ outputs' = outs
          /\ tried' = r.tried
          /\ audio_id' = r.id
  /\ spc' = "loop"
  /\ UNCHANGED <<moduleVars, initVars, cb_ret, audio_close_requested, connVars, sock, cur,
                 decVars, device_busy, nframes, srv_hazards, listening>>

\* _speechd_play when the configuration names no output method at all:
\* the thread returns before it creates its main loop
S_NoMethod ==
  /\ spc = "start"
  /\ spc' = "returned"
  /\ UNCHANGED <<moduleVars, initVars, cb_ret, bootVars, audio_id, audio_close_requested,
                 connVars, sock, cur, decVars, device_busy, nframes,
                 srv_hazards>>

\* spd_audio_set_volume called with one of the volumes V on the handle of
\* the playback thread, between two iterations of its loop
SetVolume(V) ==
  /\ spc = "loop"
  /\ \E v \in V : audio_id' = spd_audio_set_volume(audio_id, v).id
  /\ UNCHANGED <<moduleVars, initVars, cb_ret, bootVars, audio_close_requested, connVars, sock,
                 spc, cur, decVars, device_busy, nframes, srv_hazards>>

\* ----------------------------------------------------------- producers
\* a chunk with no samples, as a producer would frame it
ZeroCount ==
  Encode([format |-> SPD_AUDIO_LE, bits |-> 16, num_channels |-> 1,
          sample_rate |-> 16000, num_samples |-> 0])

\* what a producer may send: chunks, the keep-alive, malformed headers
Messages ==
  {Encode(ch) : ch \in Chunks(1)} \cup {ZeroCount, AckLine, ShortHeader}

\* the chunk the Baratinoo module sends: little endian, mono, one sample
OneSample ==
  Encode([format |-> SPD_AUDIO_LE, bits |-> 16, num_channels |-> 1,
          sample_rate |-> 16000, num_samples |-> 1])

\* where a producer's write of m may be cut in two: before its last byte,
\* or not at all
Cuts(m) == {Len(m) - 1, Len(m)}

\* a producer connects to the audio socket
P_Connect(C) ==
  /\ spc # "ended"
  /\ \E c \in C :
       /\ sock[c].st = "none"
       /\ \A b \in C : b < c => sock[b].st # "none"
       /\ sock' = [sock EXCEPT ![c].st = "pending"]
  /\ UNCHANGED <<moduleVars, initVars, cb_ret, bootVars, audio_id, audio_close_requested, connVars, spc,
                 cur, decVars, device_busy, nframes, srv_hazards>>

\* the server holds a record for connection c, so what the producer writes
\* can be read.  (What is written before the accept is read as if written
\* right after it.)
Served(c) == sock[c].st = "accepted" /\ fd_sets[c].st = "live"

\* a producer writes the first k bytes of a message m of M
P_Write(c, M) ==
  /\ Served(c)
  /\ ~sock[c].eof
  /\ sock[c].rest = <<>>
  /\ nframes < MaxFrames
  /\ \E m \in M : \E k \in Cuts(m) :
       sock' = [sock EXCEPT ![c].data = @ \o SubSeq(m, 1, k),
                            ![c].rest = SubSeq(m, k + 1, Len(m))]
  /\ nframes' = nframes + 1
  /\ UNCHANGED <<moduleVars, initVars, cb_ret, bootVars, audio_id, audio_close_requested, connVars, spc,
                 cur, decVars, device_busy, srv_hazards>>

\* a producer writes the rest of its message
P_WriteRest(c) ==
  /\ Served(c)
  /\ ~sock[c].eof
  /\ sock[c].rest # <<>>
  /\ sock' = [sock EXCEPT ![c].data = @ \o sock[c].rest, ![c].rest = <<>>]
  /\ UNCHANGED <<moduleVars, initVars, cb_ret, bootVars, audio_id, audio_close_requested, connVars, spc,
                 cur, decVars, device_busy, nframes, srv_hazards>>

\* a producer closes its end (or dies), whatever it has left to write
P_Close(c) ==
  /\ Served(c)
  /\ ~sock[c].eof
  /\ sock' = [sock EXCEPT ![c].eof = TRUE, ![c].rest = <<>>]
  /\ UNCHANGED <<moduleVars, initVars, cb_ret, bootVars, audio_id, audio_close_requested, connVars, spc,
                 cur, decVars, device_busy, nframes, srv_hazards>>

\* ------------------------------------------------------------- accept
\* the connection at the head of the backlog of the listening socket
NextPending ==
  {c \in ConnIds : /\ sock[c].st = "pending"
                   /\ \A b \in ConnIds : b < c => sock[b].st # "pending"}

FreeFds == {d \in Fds : fdtab[d] = 0}

\* the descriptor accept() returns: the lowest one that is not open
LowestFree == CHOOSE d \in FreeFds : \A e \in FreeFds : d <= e

\* variant: the record is pushed on the queue before the result of
\* default_audio_fd_set() is tested, so a failed creation still grows the
\* queue
S_AcceptQueuesUnchecked ==
  /\ spc = "loop"
  /\ \E c \in NextPending :
       \/ /\ sock' = [sock EXCEPT ![c].st = "closed"]
          /\ UNCHANGED connVars
       \/ /\ FreeFds # {}
          /\ sock' = [sock EXCEPT ![c].st = "accepted"]
          /\ fdtab' = [fdtab EXCEPT ![LowestFree] = c]
          /\ module_data_list' = Append(module_data_list, c)
          /\ UNCHANGED <<fd_sets, closes>>
       \/ /\ FreeFds # {}
          /\ sock' = [sock EXCEPT ![c].st = "accepted"]
          /\ fdtab' = [fdtab EXCEPT ![LowestFree] = c]
          /\ fd_sets' = [fd_sets EXCEPT
                           ![c] = [st |-> "live", fd |-> LowestFree]]
          /\ module_data_list' = Append(module_data_list, c)
          /\ UNCHANGED closes
  /\ UNCHANGED <<moduleVars, initVars, cb_ret, bootVars, audio_id, audio_close_requested, spc, cur,
                 decVars, device_busy, nframes, srv_hazards>>

\* variant: the record keeps the listening socket (descriptor 0 here)
\* instead of the descriptor accept() returned
S_AcceptStoresListener ==
  /\ spc = "loop"
  /\ \E c \in NextPending :
       /\ FreeFds # {}
       /\ sock' = [sock EXCEPT ![c].st = "accepted"]
       /\ fdtab' = [fdtab EXCEPT ![LowestFree] = c]
       /\ fd_sets' = [fd_sets EXCEPT ![c] = [st |-> "live", fd |-> 0]]
       /\ module_data_list' = Append(module_data_list, c)
       /\ UNCHANGED closes
  /\ UNCHANGED <<moduleVars, initVars, cb_ret, bootVars, audio_id, audio_close_requested, spc, cur,
                 decVars, device_busy, nframes, srv_hazards>>

\* audio_socket_process_incoming -> speechd_audio_connection_new: accept()
\* may fail (the connection was aborted); default_audio_fd_set() may return
\* NULL, and then the accepted socket stays open without a record;
\* otherwise the new record is attached and pushed on the queue
S_Accept ==
  /\ spc = "loop"
  /\ \E c \in NextPending :
       \/ /\ sock' = [sock EXCEPT ![c].st = "closed"]
          /\ UNCHANGED connVars
       \/ /\ FreeFds # {}
          /\ sock' = [sock EXCEPT ![c].st = "accepted"]
          /\ fdtab' = [fdtab EXCEPT ![LowestFree] = c]
          /\ UNCHANGED <<fd_sets, module_data_list, closes>>
       \/ /\ FreeFds # {}
          /\ sock' = [sock EXCEPT ![c].st = "accepted"]
          /\ fdtab' = [fdtab EXCEPT ![LowestFree] = c]
          /\ fd_sets' = [fd_sets EXCEPT
                           ![c] = [st |-> "live", fd |-> LowestFree]]
          /\ module_data_list' = Append(module_data_list, c)
          /\ UNCHANGED closes
  /\ UNCHANGED <<moduleVars, initVars, cb_ret, bootVars, audio_id, audio_close_requested, spc, cur,
                 decVars, device_busy, nframes, srv_hazards>>

\* ------------------------------------------------------ a record's source
\* the queue without record r (g_queue_remove)
RECURSIVE Without(_, _)
Without(q, r) ==
  IF q = <<>> THEN <<>>
  ELSE IF Head(q) = r THEN Tail(q)
  ELSE <<Head(q)>> \o Without(Tail(q), r)

\* the descriptor of record r polls readable: data to read, or end of file
Readable(r) == sock[r].data # <<>> \/ sock[r].eof

\* free_fd_set(fd_set) for each record of rs: close(fd_set->fd), destroy
\* the source, g_free(fd_set)
FreeFdSets(rs) ==
  /\ fdtab' = [d \in Fds |->
                 IF \E r \in rs : fd_sets[r].fd = d THEN 0 ELSE fdtab[d]]
  /\ closes' = [r \in ConnIds |-> IF r \in rs THEN closes[r] + 1
                                  ELSE closes[r]]
  /\ fd_sets' = [r \in ConnIds |-> IF r \in rs
                                   THEN [fd_sets[r] EXCEPT !.st = "freed"]
                                   ELSE fd_sets[r]]
  /\ sock' = [c \in ConnIds |-> IF c \in rs
                                THEN [NoSock EXCEPT !.st = "closed"]
                                ELSE sock[c]]
  /\ srv_hazards' = IF \E r \in rs : fd_sets[r].st # "live"
                    THEN srv_hazards \cup {"record_freed_twice"}
                    ELSE srv_hazards

\* variant: the record of a module that has gone is freed but stays in the
\* queue
H_DispatchNoRemove(r) ==
  /\ spc = "loop"
  /\ fd_sets[r].st = "live"
  /\ Readable(r)
  /\ IF Len(sock[r].data) = 0
     THEN /\ FreeFdSets({r})
          /\ UNCHANGED <<module_data_list, spc, cur>>
     ELSE /\ spc' = "readline"
          /\ cur' = r
          /\ UNCHANGED <<connVars, sock, srv_hazards>>
  /\ UNCHANGED <<moduleVars, initVars, cb_ret, bootVars, audio_id, audio_close_requested, decVars,
                 device_busy, nframes>>

\* variant: the record is dropped as soon as the peer has closed, with
\* data still to read
H_DispatchGoneOnHangup(r) ==
  /\ spc = "loop"
  /\ fd_sets[r].st = "live"
  /\ Readable(r)
  /\ IF sock[r].eof
     THEN /\ module_data_list' = Without(module_data_list, r)
          /\ FreeFdSets({r})
          /\ UNCHANGED <<spc, cur>>
     ELSE /\ spc' = "readline"
          /\ cur' = r
          /\ UNCHANGED <<connVars, sock, srv_hazards>>
  /\ UNCHANGED <<moduleVars, initVars, cb_ret, bootVars, audio_id, audio_close_requested, decVars,
                 device_busy, nframes>>

\* audio_process_incoming(fd, NULL, fd_set) up to the call of play_audio:
\* with nothing to read the module has gone, the record leaves the queue
\* and is freed, and the source is removed (return FALSE)
H_Dispatch(r) ==
  /\ spc = "loop"
  /\ fd_sets[r].st = "live"
  /\ Readable(r)
  /\ IF Len(sock[r].data) = 0
     THEN /\ module_data_list' = Without(module_data_list, r)
          /\ FreeFdSets({r})
          /\ UNCHANGED <<spc, cur>>
     ELSE /\ spc' = "readline"
          /\ cur' = r
          /\ UNCHANGED <<connVars, sock, srv_hazards>>
  /\ UNCHANGED <<moduleVars, initVars, cb_ret, bootVars, audio_id, audio_close_requested, decVars,
                 device_busy, nframes>>

\* play_audio returns to audio_process_incoming
HandlerReturns(kind) ==
  /\ spc' = "ret"
  /\ hres' = kind

\* a read() on the descriptor of the record being served would not block
CanRead == sock[cur].data # <<>> \/ sock[cur].eof

\* variant: the test of num_samples is missing
H_ReadLineNoCountTest ==
  /\ spc = "readline"
  /\ CanRead
  /\ LET l == TakeLine(buf, sock[cur].data)
         got == SubSeq(sock[cur].data, 1,
                       Len(sock[cur].data) - Len(l.rest))
         md == g_strsplit(l.buf, 5)
     IN /\ sock' = [sock EXCEPT ![cur].data = l.rest]
        /\ consumed' = consumed \o got
        /\ buf' = l.buf
        /\ IF ~l.done
           THEN IF sock[cur].data = <<>>
                THEN HandlerReturns("eof_in_header") /\ UNCHANGED <<track, format>>
                ELSE UNCHANGED <<spc, track, format, hres>>
           ELSE IF l.buf = AckLine
                THEN HandlerReturns("ack") /\ UNCHANGED <<track, format>>
           ELSE IF Len(md) < 5
                THEN HandlerReturns("bad_header") /\ UNCHANGED <<track, format>>
           ELSE /\ format' = strtol(md[1])
                /\ track' = TrackOf(md)
                /\ spc' = "payload" /\ UNCHANGED hres
  /\ UNCHANGED <<moduleVars, initVars, cb_ret, bootVars, audio_id, audio_close_requested, connVars, cur,
                 device_busy, nframes, srv_hazards>>

\* variant: the keep-alive line is not known, it is split like a header
H_ReadLineNoKeepAlive ==
  /\ spc = "readline"
  /\ CanRead
  /\ LET l == TakeLine(buf, sock[cur].data)
         got == SubSeq(sock[cur].data, 1,
                       Len(sock[cur].data) - Len(l.rest))
         md == g_strsplit(l.buf, 5)
     IN /\ sock' = [sock EXCEPT ![cur].data = l.rest]
        /\ consumed' = consumed \o got
        /\ buf' = l.buf
        /\ IF ~l.done
           THEN IF sock[cur].data = <<>>
                THEN HandlerReturns("eof_in_header") /\ UNCHANGED <<track, format>>
                ELSE UNCHANGED <<spc, track, format, hres>>
           ELSE IF Len(md) < 5
                THEN HandlerReturns("bad_header") /\ UNCHANGED <<track, format>>
           ELSE /\ format' = strtol(md[1])
                /\ track' = TrackOf(md)
                /\ IF TrackOf(md).num_samples <= 0
                   THEN HandlerReturns("bad_count")
                   ELSE spc' = "payload" /\ UNCHANGED hres
  /\ UNCHANGED <<moduleVars, initVars, cb_ret, bootVars, audio_id, audio_close_requested, connVars, cur,
                 device_busy, nframes, srv_hazards>>

\* play_audio: the header line is read a byte at a time (each read blocks
\* until a byte or the end of file comes); then the keep-alive test, the
\* split in five pieces and the test of the sample count
H_ReadLine ==
  /\ spc = "readline"
  /\ CanRead
  /\ LET l == TakeLine(buf, sock[cur].data)
         got == SubSeq(sock[cur].data, 1,
                       Len(sock[cur].data) - Len(l.rest))
         md == g_strsplit(l.buf, 5)
     IN /\ sock' = [sock EXCEPT ![cur].data = l.rest]
        /\ consumed' = consumed \o got
        /\ buf' = l.buf
        /\ IF ~l.done
           THEN IF sock[cur].data = <<>>
                THEN HandlerReturns("eof_in_header") /\ UNCHANGED <<track, format>>
                ELSE UNCHANGED <<spc, track, format, hres>>
           ELSE IF l.buf = AckLine
                THEN HandlerReturns("ack") /\ UNCHANGED <<track, format>>
           ELSE IF Len(md) < 5
                THEN HandlerReturns("bad_header") /\ UNCHANGED <<track, format>>
           ELSE /\ format' = strtol(md[1])
                /\ track' = TrackOf(md)
                /\ IF TrackOf(md).num_samples <= 0
                   THEN HandlerReturns("bad_count")
                   ELSE spc' = "payload" /\ UNCHANGED hres
  /\ UNCHANGED <<moduleVars, initVars, cb_ret, bootVars, audio_id, audio_close_requested, connVars, cur,
                 device_busy, nframes, srv_hazards>>

\* n zero bytes (g_malloc0_n)
Zeros(n) == [i \in 1..n |-> 0]

\* variant: the test of bytes_read is missing, what was read gets played
H_ReadPayloadPlaysShort ==
  /\ spc = "payload"
  /\ CanRead
  /\ LET want == track.num_samples * 2
         bytes_read == IF Len(sock[cur].data) < want
                       THEN Len(sock[cur].data) ELSE want
         got == SubSeq(sock[cur].data, 1, bytes_read)
     IN /\ sock' = [sock EXCEPT
                      ![cur].data = SubSeq(@, bytes_read + 1, Len(@))]
        /\ consumed' = consumed \o got
        /\ track' = [track EXCEPT !.samples = got \o Zeros(want - bytes_read)]
        /\ spc' = "play"
  /\ UNCHANGED <<moduleVars, initVars, cb_ret, bootVars, audio_id, audio_close_requested, connVars, cur,
                 buf, format, hres, device_busy, nframes, srv_hazards>>

\* play_audio: one read() of num_samples * sizeof(short) bytes into the
\* zeroed sample buffer; it returns what is there, at most what was asked
H_ReadPayload ==
  /\ spc = "payload"
  /\ CanRead
  /\ LET want == track.num_samples * 2
         bytes_read == IF Len(sock[cur].data) < want
                       THEN Len(sock[cur].data) ELSE want
         got == SubSeq(sock[cur].data, 1, bytes_read)
     IN /\ sock' = [sock EXCEPT
                      ![cur].data = SubSeq(@, bytes_read + 1, Len(@))]
        /\ consumed' = consumed \o got
        /\ track' = [track EXCEPT !.samples = got \o Zeros(want - bytes_read)]
        /\ IF bytes_read # want
           THEN HandlerReturns(IF sock[cur].eof THEN "truncated"
                               ELSE "short_read")
           ELSE spc' = "play" /\ UNCHANGED hres
  /\ UNCHANGED <<moduleVars, initVars, cb_ret, bootVars, audio_id, audio_close_requested, connVars, cur,
                 buf, format, device_busy, nframes, srv_hazards>>

\* variant: the plugin's play returns at once and the device plays on
H_PlayNoWait ==
  /\ spc = "play"
  /\ device_busy' = device_busy \cup {cur}
  /\ HandlerReturns("played")
  /\ UNCHANGED <<moduleVars, initVars, cb_ret, bootVars, audio_id, audio_close_requested, connVars, sock,
                 cur, buf, track, format, consumed, nframes, srv_hazards>>

\* spd_audio_play(audio_id, track, format) up to the call of the plugin's
\* play: without a device it returns -1; a format other than the device's
\* runs the swap loop, which for SwapEnd(track) beyond the sample buffer
\* writes past it (undefined: the heap is damaged silently, or the process
\* dies); then id->function->play(id, track) starts
H_Play ==
  /\ spc = "play"
  /\ IF ~audio_id.open
     THEN /\ HandlerReturns("no_device")
          /\ UNCHANGED <<track, device_busy, srv_hazards>>
     ELSE LET swap == format # audio_id.format
              over == swap /\ SwapEnd(track) > Len(track.samples)
          IN /\ srv_hazards' = IF over
                               THEN srv_hazards \cup {"swap_past_buffer"}
                               ELSE srv_hazards
             /\ \/ /\ track' = IF swap
                               THEN [track EXCEPT !.samples =
                                       SwapLoop(@, 0, SwapEnd(track))]
                               ELSE track
                   /\ device_busy' = device_busy \cup {cur}
                   /\ spc' = "playing"
                   /\ UNCHANGED hres
                \/ /\ over
                   /\ spc' = "crashed"
                   /\ UNCHANGED <<track, hres, device_busy>>
  /\ UNCHANGED <<moduleVars, initVars, cb_ret, bootVars, audio_id, audio_close_requested, connVars, sock,
                 cur, buf, format, consumed, nframes>>

\* variant: a play that fails makes the server close its device
H_PlayReturnsClosesDevice ==
  /\ spc = "playing"
  /\ device_busy' = device_busy \ {cur}
  /\ \E ret \in {0, -1} :
       /\ HandlerReturns(IF ret < 0 THEN "play_error" ELSE "played")
       /\ audio_id' = IF ret < 0 THEN NoAudioID ELSE audio_id
  /\ UNCHANGED <<moduleVars, initVars, cb_ret, bootVars, audio_close_requested, connVars, sock,
                 cur, buf, track, format, consumed, nframes, srv_hazards>>

\* the plugin's play returns when the device has consumed the chunk, or
\* with an error; spd_audio_play and play_audio return
H_PlayReturns ==
  /\ spc = "playing"
  /\ device_busy' = device_busy \ {cur}
  /\ \E ret \in {0, -1} :
       HandlerReturns(IF ret < 0 THEN "play_error" ELSE "played")
  /\ UNCHANGED <<moduleVars, initVars, cb_ret, bootVars, audio_id, audio_close_requested, connVars, sock,
                 cur, buf, track, format, consumed, nframes, srv_hazards>>

\* variant: a failure of play_audio drops the connection
H_ReturnDropsOnFailure ==
  /\ spc = "ret"
  /\ spc' = "loop"
  /\ cur' = 0
  /\ buf' = <<>>
  /\ track' = NoTrack
  /\ format' = 0
  /\ consumed' = <<>>
  /\ hres' = "none"
  /\ IF hres \in {"ack", "played"}
     THEN UNCHANGED <<connVars, sock, srv_hazards>>
     ELSE /\ module_data_list' = Without(module_data_list, cur)
          /\ FreeFdSets({cur})
  /\ UNCHANGED <<moduleVars, initVars, cb_ret, bootVars, audio_id, audio_close_requested, device_busy,
                 nframes>>

\* audio_process_incoming after play_audio: a failure is logged, the source
\* stays attached either way (return TRUE)
H_Return ==
  /\ spc = "ret"
  /\ spc' = "loop"
  /\ cur' = 0
  /\ buf' = <<>>
  /\ track' = NoTrack
  /\ format' = 0
  /\ consumed' = <<>>
  /\ hres' = "none"
  /\ UNCHANGED <<moduleVars, initVars, cb_ret, bootVars, audio_id, audio_close_requested, connVars, sock,
                 device_busy, nframes, srv_hazards>>

\* ------------------------------------------------------------ shutdown
\* close_audio_thread(), called by the main thread
S_CloseRequest ==
  /\ ~audio_close_requested
  /\ spc # "ended"
  /\ audio_close_requested' = TRUE
  /\ UNCHANGED <<moduleVars, initVars, cb_ret, bootVars, audio_id, connVars, sock, spc, cur, decVars,
                 device_busy, nframes, srv_hazards>>

\* a source of default priority is ready
FdSourceReady ==
  \/ NextPending # {}
  \/ \E r \in ConnIds : fd_sets[r].st = "live" /\ Readable(r)

\* check_close_requested, the idle source: the main loop calls it in the
\* iterations in which no descriptor source is ready
S_CheckClose ==
  /\ spc = "loop"
  /\ ~FdSourceReady
  /\ audio_close_requested
  /\ spc' = "quit"
  /\ UNCHANGED <<moduleVars, initVars, cb_ret, bootVars, audio_id, audio_close_requested, connVars, sock,
                 cur, decVars, device_busy, nframes, srv_hazards>>

\* _speechd_play after g_main_loop_run(): speechd_audio_cleanup closes the
\* listening socket and the device, then g_queue_free_full frees every
\* record of the queue
S_Shutdown ==
  /\ spc = "quit"
  /\ audio_id' = NoAudioID
  /\ FreeFdSets({module_data_list[i] : i \in DOMAIN module_data_list})
  /\ module_data_list' = <<>>
  /\ listening' = FALSE
  /\ spc' = "ended"
  /\ UNCHANGED <<moduleVars, initVars, cb_ret, audio_close_requested, cur, decVars,
                 device_busy, nframes, outputs, tried>>

\* the playback thread: what the main loop dispatches
ServerStep ==
  \/ S_Start({DefaultOutputs}) \/ S_Accept
  \/ (\E r \in ConnIds : H_Dispatch(r))
  \/ H_ReadLine \/ H_ReadPayload \/ H_Play \/ H_PlayReturns \/ H_Return
  \/ S_CheckClose \/ S_Shutdown

\* producers that send the chunk of the Baratinoo module
ProducerStep ==
  \/ P_Connect(ConnIds)
  \/ \E c \in ConnIds : P_Write(c, {OneSample}) \/ P_WriteRest(c) \/ P_Close(c)

ServerNext == ServerStep \/ ProducerStep \/ S_CloseRequest

\* the audio server with its producers; the output module stays as it is
ServerSpec == Init /\ [][ServerNext]_vars

\* weak fairness of H_ReadLine, with its enabling condition written out:
\* a read() that can return does return
ReadLineFair ==
  \/ []<>~(spc = "readline" /\ CanRead)
  \/ []<><<H_ReadLine>>_vars

\* the playback thread is scheduled fairly: a step it can take, it takes;
\* a call of the plugin's play returns.  Producers and the thread that asks
\* for the close owe nothing.
FairServerSpec ==
  /\ ServerSpec
  /\ WF_vars(S_Start({DefaultOutputs}))
  /\ WF_vars(S_Accept)
  /\ WF_vars(\E r \in ConnIds : H_Dispatch(r))
  /\ ReadLineFair
  /\ WF_vars(H_ReadPayload)
  /\ WF_vars(H_Play)
  /\ WF_vars(H_PlayReturns)
  /\ WF_vars(H_Return)
  /\ WF_vars(S_CheckClose)
  /\ WF_vars(S_Shutdown)

\* the start and the end of the playback thread under every configuration,
\* and the volume calls on its handle
StartNext ==
  \/ S_Start(Configs) \/ S_NoMethod \/ SetVolume(Volumes)
  \/ S_CloseRequest \/ S_CheckClose \/ S_Shutdown

StartSpec == Init /\ [][StartNext]_vars

\* one producer that sends any of the messages
CodecNext ==
  \/ ServerStep \/ S_CloseRequest
  \/ P_Connect({1}) \/ P_Write(1, Messages) \/ P_WriteRest(1) \/ P_Close(1)

\* the decoder of the audio server in front of one producer
CodecSpec == Init /\ [][CodecNext]_vars

\* ---------------------------------------------------------- properties
Range(f) == {f[i] : i \in DOMAIN f}

\* number of events of kind k reported for buffer b
RECURSIVE CountEvents(_, _, _)
CountEvents(s, k, b) ==
  IF s = <<>> THEN 0
  ELSE (IF Head(s) = <<k, b>> THEN 1 ELSE 0) + CountEvents(Tail(s), k, b)

\* a buffer that is allocated and not deleted
Live(b) == bufs[b].st \in {"new", "init"}

\* request thread c takes a step out of position l
Leaves(c, l) == cpc[c] = l /\ cpc'[c] # l

\* what a request can change in the session, besides its own position
SessionFrame ==
  UNCHANGED <<stop_requested, close_requested, text_buffer, sem, voice,
              released, bufs, nalloc, eng_buf, eng_left, tpc, tstate,
              cancel_sent, events, played>>

\* C1: at most one utterance is pending or being spoken at a time: of the
\* speak requests that were accepted (returned bytes), at most one has an
\* input buffer that is still alive; every other request was rejected.
C1_OneUtteranceAtATime ==
  Cardinality({b \in accepted : Live(b)}) <= 1

\* C2: once stop() has returned during an utterance, no chunk of that
\* utterance is handed to the output path any more, except the one whose
\* hand-over was already in progress.
C2_NoAudioAfterStop ==
  \A b \in BufIds :
    stopmark[b] >= 0 => CountPlayed(played, b) <= stopmark[b]

\* an utterance was stopped after it began, its remaining audio was dropped,
\* the engine was purged, the flag cleared and the utterance ended
C2_Witness ==
  \E b \in BufIds :
    /\ stopmark[b] >= 0
    /\ b \in accepted
    /\ CountEvents(events, "end", b) = 1
    /\ CountPlayed(played, b) < bufs[b].text
    /\ ~stop_requested
    /\ ~close_requested

\* C3 as stated: the second of two stop() calls in succession never signals
\* the semaphore and leaves the session state as the first call left it.
C3_SecondStopNoEffect ==
  [][\A c \in Callers :
       (cop[c] = "stop" /\ clast[c] = "stop" /\ cpc'[c] # cpc[c]
        /\ hazards = {})
         => SessionFrame]_vars

\* C3 amended: a second stop() that finds the stop flag still set returns 0
\* at once, without signalling the semaphore or changing the session state.
C3_SecondStopWhileSet ==
  [][\A c \in Callers :
       (cop[c] = "stop" /\ clast[c] = "stop" /\ Leaves(c, "stop_check")
        /\ stop_requested)
         => (cpc'[c] = "idle" /\ cret'[c] = 0 /\ SessionFrame)]_vars

\* the second stop() arrives while the flag set by the first is still set
\* and the utterance is still pending
C3_Witness ==
  \E c \in Callers :
    /\ cop[c] = "stop" /\ clast[c] = "stop" /\ cpc[c] = "stop_check"
    /\ stop_requested
    /\ text_buffer \in accepted

\* C4 as stated: a speak issued right after a stop() of a speaking session
\* is never rejected as busy.
C4_SpeakAfterStopAccepted ==
  [][\A c \in Callers :
       (cop[c] = "speak" /\ clast[c] = "stop" /\ Leaves(c, "speak_check")
        /\ text_buffer \in accepted \cup {NULL}
        /\ hazards = {})
         => cpc'[c] = "speak_clear"]_vars

\* C4 amended: a speak issued after stop() passes the busy test exactly when
\* the pending input buffer has been cleared by then; before that it is
\* rejected with 0.
C4_SpeakAfterStopIffCleared ==
  [][\A c \in Callers :
       (cop[c] = "speak" /\ clast[c] = "stop" /\ Leaves(c, "speak_check"))
         => IF text_buffer = NULL
            THEN cpc'[c] = "speak_clear"
            ELSE cpc'[c] = "idle" /\ cret'[c] = 0]_vars

\* a speak issued after the stop of an utterance, once that utterance has
\* ended, is past the busy test
C4_Witness ==
  \E c \in Callers, b \in BufIds :
    /\ cop[c] = "speak" /\ clast[c] = "stop" /\ cpc[c] = "speak_clear"
    /\ stopmark[b] >= 0
    /\ CountEvents(events, "end", b) = 1

\* C5: every accepted speak gets exactly one begin and one end event and
\* the session is idle again afterwards: whenever the thread is parked on
\* the semaphore with nothing left to consume and no request is running,
\* that has happened for every accepted speak (no close being requested).
C5_AcceptedSpeakBeginsAndEnds ==
  (/\ tpc = "wait" /\ sem = 0 /\ ~close_requested
   /\ \A c \in Callers : cpc[c] = "idle"
   /\ hazards = {})
    => \A b \in accepted :
         /\ CountEvents(events, "begin", b) = 1
         /\ CountEvents(events, "end", b) = 1
         /\ text_buffer # b

\* C6: a speak rejected as busy returns 0 and leaves the stop flag, the
\* pending buffer, the voice and the semaphore unchanged, with no event.
C6_RejectedSpeakChangesNothing ==
  [][\A c \in Callers :
       (cpc[c] = "speak_check" /\ cpc'[c] = "idle")
         => (cret'[c] = 0 /\ SessionFrame)]_vars

\* a speak has been rejected as busy while a stop was pending
C6_Witness ==
  \E c \in Callers :
    /\ cpc[c] = "idle" /\ clast[c] = "speak" /\ cret[c] = 0
    /\ cbuf[c] = NULL
    /\ text_buffer \in accepted
    /\ stop_requested

\* C7: pause() in Idle returns 0 and changes nothing; pause() with a pending
\* buffer does what stop() does (flag set and one signal, or nothing more if
\* the flag is already set) and returns the failure value.
C7_Pause ==
  [][\A c \in Callers :
       /\ Leaves(c, "pause_check") =>
            /\ SessionFrame
            /\ IF text_buffer = NULL
               THEN cpc'[c] = "idle" /\ cret'[c] = 0
               ELSE cpc'[c] = "stop_check" /\ cop'[c] = "pause"
       /\ (cop[c] = "pause" /\ Leaves(c, "stop_check")) =>
            /\ SessionFrame
            /\ IF stop_requested
               THEN cpc'[c] = "idle" /\ cret'[c] = PauseFailed
               ELSE cpc'[c] = "stop_set"
       /\ (cop[c] = "pause" /\ Leaves(c, "stop_set")) =>
            /\ stop_requested' /\ sem' = sem /\ cpc'[c] = "stop_post"
       /\ (cop[c] = "pause" /\ Leaves(c, "stop_post")) =>
            /\ sem' = sem + 1 /\ stop_requested' = stop_requested
            /\ cpc'[c] = "idle" /\ cret'[c] = PauseFailed]_vars

\* a pause during an utterance has stopped it and reported failure
C7_Witness ==
  \E c \in Callers :
    /\ cpc[c] = "idle" /\ clast[c] = "pause" /\ cret[c] = PauseFailed
    /\ stop_requested
    /\ text_buffer \in accepted

\* C8: once close() has been called, no later speak is accepted.
C8_NoSpeakAfterClose ==
  [][\A c \in Callers :
       (close_requested /\ cop[c] = "speak" /\ cpc'[c] = "idle"
        /\ cpc[c] # "idle")
         => cret'[c] = 0]_vars

\* C9: after close() has set the close flag and signalled the semaphore,
\* the thread leaves its loop by itself, unless close() gets to cancel it
\* first.
C9_CloseExitsLoop ==
  (\E c \in Callers : cpc[c] = "close_cancel")
    ~> (tpc = "exited" \/ cancel_sent)

\* the thread has left its loop by itself in the middle of an utterance
C9_Witness ==
  /\ tpc = "exited"
  /\ ~cancel_sent
  /\ \E b \in accepted :
       /\ CountEvents(events, "end", b) = 1
       /\ CountPlayed(played, b) < bufs[b].text
       /\ stopmark[b] < 0

\* C10: the engine thread never uses the engine, a text buffer or the
\* semaphore after close() has released them: close() releases them only
\* when the thread has returned or has been cancelled and joined.
C10_NoUseAfterRelease ==
  /\ "thread_use_after_release" \notin hazards
  /\ released => ThreadGone

\* close() has released the resources after cancelling the thread in the
\* middle of an utterance
C10_Witness ==
  /\ released
  /\ tpc = "cancelled"
  /\ text_buffer \in accepted
  /\ CountEvents(events, "begin", text_buffer) = 1
  /\ CountEvents(events, "end", text_buffer) = 0

\* the chunks handed over so far are in the order the engine produced them:
\* those of one utterance are contiguous and their generation rank grows
\* (the count of chunks left goes down), so none appears twice
InGenerationOrder(s) ==
  \A i, j \in DOMAIN s :
    i < j /\ s[i][1] = s[j][1]
      => /\ s[i][2] > s[j][2]
         /\ \A k \in i..j : s[k][1] = s[i][1]

\* C11: for one session the chunks reach the output path one at a time and
\* in the order the engine produced them: every hand-off is one whole call
\* of the output callback by the synthesis thread, it adds exactly the chunk
\* the engine has just produced at the end of what was handed over, and it
\* has returned before the engine produces the next chunk; no chunk is
\* reordered or handed over twice.
C11_ChunksOneAtATimeInOrder ==
  [][/\ played' # played =>
          /\ tpc = "cb_out" /\ tpc' = "slice"
          /\ played' = Append(played, <<eng_buf, eng_left>>)
          /\ eng_left' = eng_left - 1
     /\ InGenerationOrder(played')]_vars

\* both chunks of a two-chunk utterance have been handed over
C11_Witness ==
  /\ hazards = {}
  /\ \E b \in accepted :
       /\ bufs[b].text = MaxChunks
       /\ CountPlayed(played, b) = MaxChunks
  /\ tpc = "slice"

\* C12: in the audio server at most one chunk is being played on the device
\* at any instant, whatever the number of connections with data ready:
\* while the plugin plays a chunk the playback thread is inside that play
\* call, for the record it serves, so no other play call begins before it
\* returns.
C12_OneChunkOnDevice ==
  /\ Cardinality(device_busy) <= 1
  /\ device_busy # {} => spc = "playing" /\ device_busy = {cur}

\* a chunk is being played while another connection has a whole frame ready
C12_Witness ==
  /\ spc = "playing"
  /\ \E r \in ConnIds :
       /\ r # cur
       /\ fd_sets[r].st = "live"
       /\ sock[r].data = OneSample

\* the playback thread is calling spd_audio_play, or is inside it
InPlay(p) == p \in {"play", "playing"}

\* C13: partial chunks are never played: when the read of the payload
\* returns fewer than num_samples * 2 bytes, play_audio fails without
\* calling play for that frame; spd_audio_play is only ever called right
\* after a read that returned the whole payload, with exactly those bytes.
C13_NoPartialChunkPlayed ==
  [][/\ (spc = "payload" /\ spc' # "payload"
         /\ Len(sock[cur].data) < track.num_samples * 2)
          => /\ spc' = "ret"
             /\ hres' \in {"truncated", "short_read"}
             /\ device_busy' = {}
     /\ (InPlay(spc') /\ ~InPlay(spc))
          => /\ spc = "payload"
             /\ Len(sock[cur].data) >= track.num_samples * 2
             /\ track'.samples
                  = SubSeq(sock[cur].data, 1, track.num_samples * 2)
     /\ spc = "ret" => ~InPlay(spc')]_vars

\* play_audio has failed on a payload of which only a part had come
C13_Witness ==
  /\ spc = "ret"
  /\ hres \in {"truncated", "short_read"}
  /\ track.num_samples = MaxSamples
  /\ track.samples # Zeros(2 * MaxSamples)

\* record r is in the connection set, attached, with its descriptor open
InSet(r) ==
  /\ fd_sets[r].st = "live"
  /\ r \in Range(module_data_list)
  /\ fdtab[fd_sets[r].fd] = r

\* record r is still in the set after the step
StillInSet(r) ==
  /\ fd_sets'[r].st = "live"
  /\ r \in Range(module_data_list')
  /\ fdtab'[fd_sets'[r].fd] = r

\* record r has just been removed from the set and destroyed
TornDown(r) ==
  /\ fd_sets'[r].st = "freed"
  /\ r \notin Range(module_data_list')
  /\ fdtab'[fd_sets[r].fd] = 0
  /\ closes'[r] = closes[r] + 1

\* C14 as stated: when the payload of a frame is truncated because the peer
\* closed before sending all of it, the decode fails and the connection is
\* torn down: when the handler returns, the record is out of the set and its
\* descriptor closed.
C14_TruncatedTornDown ==
  [][(spc = "ret" /\ hres = "truncated" /\ spc' = "loop")
       => TornDown(cur)]_vars

\* C14 amended: the decode fails and the handler returns with the record
\* still in the set and its descriptor open, at end of file with nothing
\* left to read; from then on the record is not served by the decoder any
\* more, and the step that changes it is the one that removes it from the
\* set and closes its descriptor (the next readability event on it, which
\* finds zero bytes, or the shutdown).
C14_TruncatedRemovedAtNextEvent ==
  [][/\ (spc = "ret" /\ hres = "truncated" /\ spc' = "loop")
          => /\ StillInSet(cur)
             /\ sock'[cur].eof /\ sock'[cur].data = <<>>
     /\ \A r \in ConnIds :
          (InSet(r) /\ sock[r].eof /\ sock[r].data = <<>> /\ cur # r)
            => /\ cur' # r
               /\ \/ StillInSet(r) /\ sock'[r] = sock[r]
                  \/ TornDown(r)]_vars

\* the decode has just failed on a payload cut short by the peer's close
C14_Witness ==
  /\ spc = "ret"
  /\ hres = "truncated"
  /\ InSet(cur)
  /\ track.samples # Zeros(2 * track.num_samples)

\* the ways play_audio fails before it has a whole chunk
DecodeFailures ==
  {"eof_in_header", "bad_header", "bad_count", "truncated", "short_read"}

\* C15: a decode failure leaves the connection's record in the connection
\* set, attached for readability, with the set as it was; and while the
\* server runs, the only step that takes a record out of the set is the
\* readability event that finds zero bytes to read on its descriptor.
C15_DecodeFailureKeepsRecord ==
  [][/\ (spc = "ret" /\ hres \in DecodeFailures /\ spc' = "loop")
          => /\ StillInSet(cur)
             /\ module_data_list' = module_data_list
     /\ \A r \in ConnIds :
          ((r \in Range(module_data_list)
            /\ r \notin Range(module_data_list') /\ spc' # "ended")
           \/ (fd_sets[r].st = "live"
               /\ fd_sets'[r].st # "live" /\ spc' # "ended"))
            => /\ spc = "loop" /\ spc' = "loop"
               /\ sock[r].eof
               /\ Len(sock[r].data) = 0
               /\ TornDown(r)]_vars

\* the decoder has just rejected a malformed header and the producer is
\* still connected
C15_Witness ==
  /\ spc = "ret"
  /\ hres = "bad_header"
  /\ InSet(cur)
  /\ ~sock[cur].eof

\* the records are destroyed at most once, and the set holds exactly the
\* records that are alive, each once
RecordsWellKept ==
  /\ "record_freed_twice" \notin srv_hazards
  /\ \A r \in ConnIds :
       /\ closes[r] = (IF fd_sets[r].st = "freed" THEN 1 ELSE 0)
       /\ fd_sets[r].st = "live" <=> r \in Range(module_data_list)
       /\ fd_sets[r].st = "live" => fdtab[fd_sets[r].fd] = r
       /\ fd_sets[r].st = "freed" => \A d \in Fds : fdtab[d] # r
  /\ Cardinality(Range(module_data_list)) = Len(module_data_list)
  /\ spc = "ended" => module_data_list = <<>>

\* C16: the readability event that finds zero bytes on a connection removes
\* its record from the set and closes its descriptor, exactly once; over any
\* sequence of accepts, disconnects and a final shutdown no record is
\* destroyed twice, no descriptor of a record is closed twice, and no record
\* stays in the set (nor its descriptor open) once its disconnect has been
\* handled or the server has shut down.
C16_DisconnectCleanup ==
  [][/\ RecordsWellKept'
     /\ \A r \in ConnIds :
          (InSet(r) /\ spc = "loop" /\ sock[r].eof /\ sock[r].data = <<>>
           /\ fd_sets'[r] # fd_sets[r])
            => TornDown(r) /\ closes'[r] = 1]_vars

\* the server has shut down after two open/close cycles on one descriptor
C16_Witness ==
  /\ spc = "ended"
  /\ \E r, q \in ConnIds :
       /\ r # q
       /\ fd_sets[r].st = "freed" /\ fd_sets[q].st = "freed"
       /\ fd_sets[r].fd = fd_sets[q].fd
       /\ closes[r] = 1 /\ closes[q] = 1

\* C17: in every reachable state of the audio server no two records of
\* the connection set hold the same descriptor.
C17_DescriptorsUnique ==
  \A i, j \in DOMAIN module_data_list :
    i # j => fd_sets[module_data_list[i]].fd
              # fd_sets[module_data_list[j]].fd

\* a record of the set holds a descriptor that an earlier record, now
\* destroyed, had held
C17_Witness ==
  /\ \E r \in ConnIds :
       /\ fd_sets[r].st = "freed"
       /\ \E i \in DOMAIN module_data_list :
            fd_sets[module_data_list[i]].fd = fd_sets[r].fd

\* ------------------------------------------------------------------ C18
\* the fields and the sample bytes play_audio has decoded match chunk ch
DecodedAs(ch) ==
  /\ format = ch.format
  /\ track.bits = ch.bits
  /\ track.num_channels = ch.num_channels
  /\ track.sample_rate = ch.sample_rate
  /\ track.num_samples = ch.num_samples
  /\ track.samples = Payload(ch.num_samples)

\* the bytes one call of play_audio has consumed are the encoding of a
\* chunk out of cs: then the call reaches spd_audio_play with that chunk's
\* fields and sample bytes, and returns with no decode failure
RoundTrip(cs) ==
  \A ch \in cs :
    consumed = Encode(ch)
      => /\ spc \in {"play", "playing", "ret", "crashed"}
         /\ spc = "play" => DecodedAs(ch)
         /\ spc = "ret" => hres \in {"played", "play_error", "no_device"}

\* C18 as stated: every valid chunk with 0 <= num_samples <= MaxSamples,
\* encoded as header line and payload and decoded by play_audio, is handed
\* to play with identical fields and byte-identical samples.
C18_RoundTripFromZero == RoundTrip(Chunks(0))

\* C18 amended: every valid chunk with 1 <= num_samples <= MaxSamples,
\* encoded as header line and payload and decoded by play_audio, is handed
\* to play with identical fields and byte-identical samples.
C18_RoundTrip == RoundTrip(Chunks(1))

\* a big-endian stereo chunk of MaxSamples samples has been decoded and is
\* about to be handed to spd_audio_play
C18_Witness ==
  /\ spc = "play"
  /\ consumed = Encode([format |-> SPD_AUDIO_BE, bits |-> 16,
                        num_channels |-> 2, sample_rate |-> 16000,
                        num_samples |-> MaxSamples])
  /\ track.samples = Payload(MaxSamples)

\* ------------------------------------------------------------------ C19
\* the call of play_audio in progress stands at the start of a line and
\* the bytes of that line, read or still to read, are ACK CR LF
AckArrived ==
  /\ spc = "readline"
  /\ Len(consumed \o sock[cur].data) >= Len(AckLine)
  /\ SubSeq(consumed \o sock[cur].data, 1, Len(AckLine)) = AckLine

\* C19: a literal ACK CR LF line is accepted and ignored: the read that
\* completes it makes play_audio return success having consumed the five
\* bytes of the line and nothing after them (the connection stays aligned
\* on the next frame), with no payload read, no call of the backend, the
\* record still in the connection set and its descriptor open.
C19_AckIgnored ==
  [][AckArrived /\ consumed' # consumed
       => /\ spc' = "ret" /\ hres' = "ack"
          /\ consumed' = AckLine
          /\ consumed' \o sock'[cur].data = consumed \o sock[cur].data
          /\ track' = NoTrack
          /\ device_busy' = device_busy
          /\ audio_id' = audio_id
          /\ StillInSet(cur)
          /\ fdtab' = fdtab]_vars

\* play_audio has returned on a keep-alive line while the next frame, a
\* chunk, waits unread on the same connection
C19_Witness ==
  /\ spc = "ret"
  /\ hres = "ack"
  /\ consumed = AckLine
  /\ InSet(cur)
  /\ \E ch \in Chunks(1) : sock[cur].data = Encode(ch)

\* ------------------------------------------------------------------ C20
\* s with the two bytes of each 16-bit sample exchanged
SwapPairs(s) ==
  [i \in 1..Len(s) |-> IF i % 2 = 1 THEN s[i + 1] ELSE s[i - 1]]

\* C20: when spd_audio_play calls the plugin's play, the samples it passes
\* are those it was given with the two bytes of every 16-bit sample
\* exchanged exactly once if the chunk's format differs from the device's,
\* and those it was given, unchanged, if the formats match.
C20_SwapOnceIffFormatsDiffer ==
  [][spc = "play" /\ spc' = "playing"
       => /\ track'.samples = IF format # audio_id.format
                               THEN SwapPairs(track.samples)
                               ELSE track.samples
          /\ [track' EXCEPT !.samples = <<>>]
               = [track EXCEPT !.samples = <<>>]]_vars

\* the plugin plays a mono chunk of MaxSamples samples whose format is not
\* the device's: each pair of bytes of the payload sent has changed places
C20_Witness ==
  /\ spc = "playing"
  /\ format # audio_id.format
  /\ track.num_channels = 1
  /\ track.num_samples = MaxSamples
  /\ track.samples = SwapPairs(Payload(MaxSamples))
  /\ track.samples # Payload(MaxSamples)

\* ------------------------------------------------------------------ C21
\* C21: on an open handle, spd_audio_set_volume with a volume outside
\* -100..100 returns an error and leaves the handle as it was, its volume
\* included; with a volume inside -100..100, the limits included, it
\* returns 0 and the handle's volume is that value.  So the volume of the
\* handle never leaves -100..100.
C21_SetVolumeRange ==
  audio_id.open
    => /\ audio_id.volume \in -100..100
       /\ \A v \in Volumes :
            LET r == spd_audio_set_volume(audio_id, v)
            IN IF v \in -100..100
               THEN r.ret = 0 /\ r.id.volume = v
               ELSE r.ret # 0 /\ r.id = audio_id

\* the handle's volume has been set to the lower limit
C21_Witness ==
  /\ audio_id.open
  /\ audio_id.volume = -100

\* ------------------------------------------------------------------ C22
\* C22: the output methods are tried in the order of the configuration;
\* every attempt but the last one made has failed, so nothing is tried
\* after the first method that opens and at most one handle has been
\* opened; while the loop runs, the handle in use is the one that attempt
\* opened, and there is none only if every method was tried and failed.
C22_FirstThatOpens ==
  /\ Len(tried) <= Len(outputs)
  /\ \A i \in DOMAIN tried :
       /\ tried[i].name = outputs[i]
       /\ i < Len(tried) => ~tried[i].ok
  /\ Cardinality({i \in DOMAIN tried : tried[i].ok}) <= 1
  /\ spc \in {"loop", "quit"}
       => IF audio_id.open
          THEN /\ tried # <<>>
               /\ tried[Len(tried)].ok
               /\ audio_id.name = tried[Len(tried)].name
          ELSE /\ Len(tried) = Len(outputs)
               /\ \A i \in DOMAIN tried : ~tried[i].ok

\* two methods are configured, the first failed to open and the loop runs
\* with the handle of the second
C22_Witness ==
  /\ spc = "loop"
  /\ outputs = <<"pulse", "alsa">>
  /\ Len(tried) = 2
  /\ ~tried[1].ok
  /\ audio_id.open
  /\ audio_id.name = "alsa"

\* ------------------------------------------------------------------ C23
\* the start is over, output methods were configured and none has opened
Degraded ==
  /\ spc # "start"
  /\ outputs # <<>>
  /\ Len(tried) = Len(outputs)
  /\ \A i \in DOMAIN tried : ~tried[i].ok

\* C23: when no configured output method opens, the playback thread still
\* runs its loop and leaves it only on a close request; a frame read whole
\* from a connection is consumed and ends at spd_audio_play without a
\* device; nothing is ever played.
C23_DegradedButRunning ==
  Degraded
    => /\ spc \in {"loop", "readline", "payload", "play", "ret", "quit",
                   "ended"}
       /\ spc \in {"quit", "ended"} => audio_close_requested
       /\ spc = "loop" /\ NextPending # {} => ENABLED S_Accept
       /\ spc = "ret" /\ consumed = OneSample => hres = "no_device"
       /\ hres \notin {"played", "play_error"}
       /\ device_busy = {}

\* no output method has opened; a connection accepted since has sent a
\* whole frame, which the server has read and dropped at spd_audio_play
C23_Witness ==
  /\ Degraded
  /\ spc = "ret"
  /\ hres = "no_device"
  /\ consumed = OneSample
  /\ InSet(cur)

\* ------------------------------------------------------------------ C24
\* the playback thread has left its loop and cleaned up: the listening
\* socket and the device are closed, the queue is empty, no record lives
ShutDown ==
  /\ spc = "ended"
  /\ ~listening
  /\ ~audio_id.open
  /\ module_data_list = <<>>
  /\ \A r \in ConnIds : fd_sets[r].st # "live"

\* the playback thread waits in a read() that has nothing to return
BlockedInRead == spc \in {"readline", "payload"} /\ ~CanRead

\* C24: once the close flag is set, the event loop eventually stops, and
\* then the listening socket is closed, the device is closed and every
\* record left in the queue is destroyed, the queue left empty.
C24_CloseLeadsToShutDown == audio_close_requested ~> ShutDown

\* ------------------------------------------------------------------ C25
\* work the main loop would do if the running handler returned: a pending
\* connection, another record with bytes or a hang-up to read, the check
\* of a close request that has been made
WorkWaiting ==
  \/ NextPending # {}
  \/ \E r \in ConnIds : r # cur /\ fd_sets[r].st = "live" /\ Readable(r)
  \/ audio_close_requested

\* C25: the playback thread never waits outside the plugin's play while
\* there is work for its loop: a producer that has sent part of a header
\* line or of a payload does not hold up the other connections or the
\* check of the close request.
C25_PartialFrameNeverStalls == ~(BlockedInRead /\ WorkWaiting)

\* ------------------------------------------------------------------ C26
\* C26: a play that fails changes nothing but the result of that call: the
\* step on which the plugin's play returns, with or without an error, keeps
\* the device open and the record in the queue; the handler that returns
\* after a failed play goes back to the loop with the record still in the
\* queue and the bytes not yet read still there; and any chunk decoded
\* while the device is open is handed to the plugin's play.
C26_PlayErrorNotFatal ==
  [][/\ (spc = "playing" /\ spc' # spc)
           => (/\ spc' = "ret"
               /\ audio_id' = audio_id
               /\ StillInSet(cur))
     /\ (spc = "ret" /\ hres = "play_error" /\ spc' # spc)
           => (/\ spc' = "loop"
               /\ audio_id' = audio_id
               /\ audio_id.open
               /\ StillInSet(cur)
               /\ sock' = sock
               /\ listening')
     /\ (spc = "play" /\ audio_id.open /\ spc' # spc)
           => (/\ spc' = "playing"
               /\ device_busy' = {cur})]_vars

\* a play has failed while the next frame, on another connection, waits to
\* be read
C26_Witness ==
  /\ spc = "ret"
  /\ hres = "play_error"
  /\ InSet(cur)
  /\ \E r \in ConnIds : r # cur /\ InSet(r) /\ sock[r].data = OneSample

\* ------------------------------------------------------------------ C27
\* C27: when module_init has returned an error, *status_info is a string,
\* there is no synthesis thread and no engine instance, and no setup call
\* was made twice; it returns success only when the library is up, the
\* engine exists and every setup call was made once.
C27_SetupFailureIsFinal ==
  ipc = "done"
    => /\ init_ret \in {0, -1}
       /\ \A f \in DOMAIN tries : tries[f] <= 1
       /\ init_ret # 0
            => /\ status_info # NoStatus
               /\ tpc = "none"
               /\ engine # "alive"
       /\ init_ret = 0
            => /\ lib = "up"
               /\ engine = "alive"
               /\ \A f \in DOMAIN tries : tries[f] = 1

\* module_init has failed at its last step, the creation of the thread
C27_Witness ==
  /\ ipc = "done"
  /\ init_ret = -1
  /\ tries.thread = 1
  /\ engine = "deleted"
  /\ tpc = "none"

\* ------------------------------------------------------------------ C28
\* the value the output callback returns for a buffer it has forwarded
CbPlayed == 0

\* the synthesis thread, inside the callback, moves on (it is not cancelled)
CbReturns == tpc' \notin {tpc, "cancelled"}

\* C28: the output callback forwards a buffer to the output path unless a
\* stop is pending; with a stop pending it drops the buffer and returns a
\* value other than the one it returns for a forwarded buffer.
C28_DroppedBufferIsReported ==
  [][/\ (tpc = "cb_check" /\ ~stop_requested /\ CbReturns)
           => tpc' = "cb_out"
     /\ (tpc = "cb_out" /\ CbReturns)
           => (Len(played') = Len(played) + 1 /\ cb_ret' = CbPlayed)
     /\ (tpc = "cb_check" /\ stop_requested /\ CbReturns)
           => (played' = played /\ cb_ret' # CbPlayed)]_vars

\* ---------------------------------------------------------------- C29
\* the three places where a request signals the semaphore
PostPoints == {"speak_post", "stop_post", "close_post"}

\* The semaphore rises by one at a time and only where a request passes
\* its sem_post: every accepted speak passes it once, a stop passes it
\* exactly when it found the stop flag clear, every close passes it once.
SignalCount ==
  /\ (sem' > sem)
       => (/\ sem' = sem + 1
           /\ \E c \in DOMAIN cpc : \E at \in PostPoints : Leaves(c, at))
  /\ \A c \in DOMAIN cpc :
       /\ (\E at \in PostPoints : Leaves(c, at)) => (sem' = sem + 1)
       /\ (Leaves(c, "stop_check"))
            => (cpc'[c] = "stop_set" <=> ~stop_requested)
       /\ (Leaves(c, "stop_set")) => (cpc'[c] = "stop_post")
       /\ (Leaves(c, "speak_post")) => (cret'[c] # 0 /\ accepted' # accepted)
  /\ (accepted' # accepted)
       => (\E c \in DOMAIN cpc : Leaves(c, "speak_post"))

\* A wake-up that finds no pending input buffer goes back to waiting and
\* changes neither the events, the played audio, the engine nor a buffer.
IdleWakeUp ==
  (tpc = "check" /\ text_buffer = NULL /\ tpc' \notin {tpc, "cancelled"})
    => (/\ tpc' = "while"
        /\ UNCHANGED <<events, played, engineVars, tstate, bufs>>)

\* the positions of the begin events, and the buffers they were raised for
Begins == {i \in DOMAIN events : events[i][1] = "begin"}
Begun == {events[i][2] : i \in Begins}

\* a speak request that allocated buffer b has not returned yet
SpeakInProgress(b) ==
  \E c \in DOMAIN cpc : cop[c] = "speak" /\ cpc[c] # "idle" /\ cbuf[c] = b

\* every utterance that began is the utterance of a speak that was accepted
\* or is still being served, and none began twice
StartedOnlyForSpeak ==
  /\ \A b \in Begun : b \in accepted \/ SpeakInProgress(b)
  /\ \A i, j \in Begins : i # j => events[i][2] # events[j][2]

\* C29: the semaphore is signalled exactly once per accepted speak, once per
\* stop that finds the stop flag clear and once per close; a wake-up that
\* finds no pending input buffer emits no event, touches no engine state and
\* goes back to waiting; so a signal that belongs to no accepted speak never
\* starts an utterance and none is started twice.
C29_SurplusSignalsStartNothing ==
  [][SignalCount /\ IdleWakeUp /\ StartedOnlyForSpeak']_vars

\* ---------------------------------------------------------------- C30
\* the records on the queue
Records(q) == {q[i] : i \in DOMAIN q}

\* the listening endpoint's callback handles pending connection c
AcceptOf(c) ==
  /\ spc = "loop" /\ spc' = "loop"
  /\ sock[c].st = "pending"
  /\ sock'[c].st \in {"accepted", "closed"}

\* record c was added for the accepted connection: one more record on the
\* queue, attached for readability on the descriptor accept() returned, and
\* every other record as it was
RecordAdded(c) ==
  /\ sock'[c].st = "accepted"
  /\ Len(module_data_list') = Len(module_data_list) + 1
  /\ Records(module_data_list') = Records(module_data_list) \cup {c}
  /\ c \notin Records(module_data_list)
  /\ fd_sets'[c].st = "live"
  /\ fd_sets'[c].fd \in Fds
  /\ fdtab[fd_sets'[c].fd] = 0
  /\ fdtab'[fd_sets'[c].fd] = c
  /\ \A r \in ConnIds \ {c} : fd_sets'[r] = fd_sets[r]

\* C30: a readability event on the listening endpoint takes exactly one
\* pending connection and adds exactly one record, registered for
\* readability, to the connection set; when accept() or the creation of the
\* record fails, the connection set and every existing record are unchanged.
C30_AcceptAddsOneRecord ==
  [][\A c \in ConnIds :
       AcceptOf(c) =>
         /\ \A b \in ConnIds \ {c} : sock'[b] = sock[b]
         /\ \/ RecordAdded(c)
            \/ UNCHANGED <<module_data_list, fd_sets>>]_vars

\* a second connection has been accepted and its record stands on the queue
\* behind the record of the first
C30_Witness ==
  /\ Len(module_data_list) = 2
  /\ \A r \in Records(module_data_list) :
       fd_sets[r].st = "live" /\ sock[r].st = "accepted"

\* ---------------------------------------------------------------- C31
\* b is a whole line that is not the keep-alive and that play_audio cannot
\* take for a header: less than five pieces, or a sample count <= 0
BadHeaderLine(b) ==
  /\ Len(b) >= 2
  /\ SubSeq(b, Len(b) - 1, Len(b)) = NEWLINE
  /\ b # AckLine
  /\ \/ Len(g_strsplit(b, 5)) < 5
     \/ TrackOf(g_strsplit(b, 5)).num_samples <= 0

\* the results play_audio has for such a line
HeaderFailures == {"bad_header", "bad_count"}

\* C31: a header line with fewer than five colon-separated fields or with a
\* sample count <= 0 makes the decode fail: only the bytes of the line have
\* been read, the backend's play is not called, and when the handler returns
\* the connection is still in the set with its unread bytes.
C31_BadHeaderReadsNoPayload ==
  [][/\ (spc = "readline" /\ buf' # buf /\ BadHeaderLine(buf'))
          => (/\ spc' = "ret"
              /\ hres' \in HeaderFailures
              /\ Len(consumed') = Len(buf')
              /\ device_busy' = device_busy
              /\ StillInSet(cur))
     /\ (spc = "ret" /\ hres \in HeaderFailures /\ spc' # spc)
          => (/\ spc' = "loop"
              /\ device_busy' = device_busy
              /\ sock' = sock
              /\ StillInSet(cur))]_vars

\* a header with sample count 0 has been refused while the bytes of the
\* producer's next message wait unread on the same connection
C31_Witness ==
  /\ spc = "ret"
  /\ hres = "bad_count"
  /\ InSet(cur)
  /\ sock[cur].data # <<>>

\* ---------------------------------------------------------------- C32
\* the events reported so far go begin, end, begin, end, ...
Alternates ==
  \A i \in DOMAIN events :
    events[i][1] = (IF i % 2 = 1 THEN "begin" ELSE "end")

\* C32: over any sequence of speak, stop, pause and close requests the
\* events of a session alternate begin, end, begin, end (no two begins
\* without an end between them, no end without an unmatched begin before
\* it), and there are never more begin events than accepted speaks.
C32_AlternateWithinAccepted ==
  /\ Alternates
  /\ Cardinality(Begins) <= Cardinality(accepted)

\* ---------------------------------------------------------------- C33
\* module_speak of caller c returns 0 from its err label after the
\* initialisation of the buffer it allocated has failed
SpeakFailsAtInit(c) ==
  /\ Leaves(c, "speak_init")
  /\ cpc'[c] = "idle"
  /\ cret'[c] = 0

\* the pending input buffer designates a buffer that has been released
PendingIsReleased ==
  text_buffer \in BufIds /\ bufs[text_buffer].st = "deleted"

\* C33: when speak fails after it allocated the input buffer, the session is
\* left idle: the pending input buffer is absent (so that a following speak
\* is accepted), and the engine thread is never about to submit a released
\* buffer, whatever request woke it.
C33_FailedSpeakLeavesIdle ==
  [][/\ \A c \in DOMAIN cpc :
          SpeakFailsAtInit(c) => (text_buffer' = NULL /\ ~baratinoo_speaking')
     /\ ~(tpc' = "setin" /\ PendingIsReleased')]_vars

\* ---------------------------------------------------------------- C34
\* the pending input buffer is one that module_speak has allocated and not
\* yet filled with the text
PendingIsUnfilled ==
  text_buffer \in BufIds /\ bufs[text_buffer].st = "new"

\* C34: the engine thread submits a pending input buffer only after speak
\* has finished filling it: in no interleaving does the thread execute
\* BCinputTextBufferSetInEngine on a buffer that speak is still building.
C34_SubmitsOnlyFilledBuffer ==
  [][(tpc = "setin" /\ tpc' \notin {tpc, "cancelled"})
       => ~PendingIsUnfilled]_vars

\* ---------------------------------------------------------------- C35
\* the engine refuses the buffer the thread submits: the state it reports
\* is not READY and the thread goes back to the head of its loop
EngineRefuses ==
  /\ tpc = "setin"
  /\ tpc' = "while"
  /\ tstate' # "READY"

\* C35: when the engine refuses the submitted input buffer the session does
\* not stay busy: the pending input buffer is cleared by that step, so that
\* a later speak passes the busy test with no other request in between.
C35_RefusedBufferIsCleared ==
  [][EngineRefuses => (text_buffer' = NULL /\ ~baratinoo_speaking')]_vars

\* ---------------------------------------------------------------- C36
\* spd_audio_play is about to swap the bytes of the decoded chunk
AboutToSwap ==
  /\ spc = "play"
  /\ audio_id.open
  /\ format # audio_id.format

\* C36: when the server swaps the bytes of a decoded chunk it reads and
\* writes only bytes of the payload buffer allocated for that chunk
\* (num_samples * 2 bytes), for every channel count a header can declare.
C36_SwapStaysInBuffer ==
  /\ AboutToSwap => (/\ Len(track.samples) = track.num_samples * 2
                     /\ SwapEnd(track) <= Len(track.samples))
  /\ "swap_past_buffer" \notin srv_hazards

\* ---------------------------------------------------------------- C37
\* the header line of the frames the producers send
SentHeader == SubSeq(OneSample, 1, Len(OneSample) - 2)

\* the line play_audio has read is complete
WholeLine(b) == Len(b) >= 2 /\ SubSeq(b, Len(b) - 1, Len(b)) = NEWLINE

\* results of a decode that lost its place in the stream: a payload taken
\* for shorter than it is, or bytes that are no header taken for a header
FramingFailures == {"short_read", "bad_header", "bad_count"}

\* C37: on a stream of well-formed frames, however the bytes are split in
\* segments on arrival, every line the decoder takes for a header is the
\* header of a frame that was sent, and no decode fails on a payload of
\* which only the first segment has come: each frame gets played, once and
\* in its turn, and the tail of a payload is never parsed as a header line.
C37_SegmentsDoNotBreakFraming ==
  /\ hres \notin FramingFailures
  /\ WholeLine(buf) => buf = SentHeader

\* ---------------------------------------------------------------- C38
\* the thread gives up audio of the utterance it is synthesising: the
\* callback drops a chunk, or the loop purges what is left
DropsAudio ==
  \/ tpc = "cb_check" /\ stop_requested /\ tpc' = "slice"
  \/ tpc = "looptop" /\ tpc' = "purge"

\* the speak that allocated buffer b has been accepted, or is on its way
Accepted(b) == b \in accepted \/ SpeakInProgress(b)

\* a stop, pause or close request has come since the speak of buffer b was
\* made: it is being served, or it has returned while b was pending
StoppedSince(b) ==
  \/ \E c \in DOMAIN cpc :
       cop[c] \in {"stop", "pause", "close"} /\ cpc[c] # "idle"
  \/ stopmark[b] >= 0
  \/ close_requested

\* C38: a stop issued while the session is idle never makes audio of a later
\* accepted utterance be dropped: the stop flag is clear when an accepted
\* speak wakes the thread, and the thread gives up audio of the utterance of
\* an accepted speak only when a stop has come after that speak.
C38_IdleStopDropsNothing ==
  [][/\ \A c \in DOMAIN cpc : Leaves(c, "speak_post") => ~stop_requested
     /\ (DropsAudio /\ Accepted(eng_buf)) => StoppedSince(eng_buf)]_vars

\* a stop came while the session was idle, the only other request was a
\* speak, and a chunk of its utterance has been forwarded while one of the
\* two signals is still to be consumed
C38_Witness ==
  /\ ncalls = 2
  /\ \A c \in DOMAIN cpc : cpc[c] = "idle"
  /\ Cardinality(accepted) = 1
  /\ \A b \in BufIds : stopmark[b] < 0
  /\ ~stop_requested /\ ~close_requested
  /\ sem = 1
  /\ \E i \in DOMAIN played : played[i][1] \in accepted

\* ---------------------------------------------------------------- C39
\* the step reports the begin of an utterance
ReportsBegin ==
  /\ Len(events') = Len(events) + 1
  /\ events'[Len(events')][1] = "begin"

\* C39: once module_close has set baratinoo_close_requested the engine thread
\* starts no new utterance: no begin event is reported from then on, even
\* when an accepted speak had not been picked up by the thread yet.
C39_NoBeginAfterClose ==
  [][ReportsBegin => ~close_requested]_vars
====
